---- MODULE Spec2Model ----
(***************************************************************************)
(* Model of the RPI emulator frontend: configuration, library scan,        *)
(* browse/launch input of the main loop, the supervisor thread started     *)
(* per launch (spawn_emulator_template), the shared child slot and         *)
(* kill_current_emulator, and the settings menu with its remap capture.    *)
(***************************************************************************)
EXTENDS Integers, Sequences, FiniteSets, TLC

\* ------------------------------------------------------------------ bounds
\* Launch threads that can exist at the same time in the model.
MaxThreads == 2
\* Hotkey messages that can wait in the channel.
MaxKillReq == 1
\* List rows that fit in the window (visible in the Down handlers).
VisibleRows == 1
\* Joystick-button captures explored within one partial controller map.
MaxJoyCaptures == 1

\* --------------------------------------------------------- option values
\* Option<T> is a sequence of length 0 (None) or 1 (Some(v)).
None == << >>
Some(v) == << v >>
IsSome(o) == Len(o) = 1
Unwrap(o) == o[1]
UnwrapOr(o, d) == IF IsSome(o) THEN o[1] ELSE d

\* ------------------------------------------------------- strings and paths
\* str::to_lowercase on the names that occur in the model.
ToLower(s) ==
    CASE s = "NES" -> "nes"
      [] s = "SNES" -> "snes"
      [] s = "SFC" -> "sfc"
      [] s = "ZIP" -> "zip"
      [] s = "Zelda.NES" -> "zelda.nes"
      [] OTHER -> s

\* Path::extension of a file name: the part after the last dot, if any.
ExtOf(name) ==
    CASE name = "game.nes" -> Some("nes")
      [] name = "Zelda.NES" -> Some("NES")
      [] name = "save.zip" -> Some("zip")
      [] name = "mario.sfc" -> Some("sfc")
      [] OTHER -> None

\* Byte order of the names (uppercase ASCII sorts before lowercase).
NameOrder ==
    << "NES", "SNES", "Zelda.NES", "game.nes", "mario.sfc", "nes", "readme", "save.zip", "snes" >>
Rank(name) == CHOOSE i \in 1..Len(NameOrder) : NameOrder[i] = name

\* Path::is_absolute of the root directories that occur in the model.
IsAbsoluteDir(d) == d \in { "/srv/roms", "/home/pi/roms" }

\* A path is the root it was produced under and its components below the root
\* (DirEntry::path is the directory path joined with the entry name).
MkPath(root, rel) == [root |-> root, rel |-> rel]
FileName(p) == p.rel[Len(p.rel)]

RECURSIVE SeqLess(_, _)
SeqLess(a, b) ==
    IF a = << >> THEN b # << >>
    ELSE IF b = << >> THEN FALSE
    ELSE IF Head(a) # Head(b) THEN Rank(Head(a)) < Rank(Head(b))
    ELSE SeqLess(Tail(a), Tail(b))

\* Ord of PathBuf: component-wise comparison.
PathLess(p, q) == SeqLess(p.rel, q.rel)

\* ------------------------------------------------------------ configuration
\* CmdTemplate: program, args, extensions, visible_extensions.
Tmpl(program, args, extensions, visible) ==
    [program |-> program, args |-> args, extensions |-> extensions,
     visible_extensions |-> visible]

\* The fields of ConfigFile; every one is an Option.
FieldSet ==
    { "default", "systems", "show_empty_systems", "controller_map", "default_roms_path",
      "font_path" }

\* A ConfigFile value with the given systems, show_empty_systems and
\* default_roms_path, and the other fields None.
Cfg(systems, show_empty, roms_path) ==
    [default |-> None, systems |-> systems, show_empty_systems |-> show_empty,
     controller_map |-> None, default_roms_path |-> roms_path, font_path |-> None]

\* The content of a configuration file: TOML text, seen as the table of the keys
\* it holds, text that is not a TOML ConfigFile, or the first bytes of a text
\* whose write did not finish.
Toml(table) == [kind |-> "toml", table |-> table]
Garbage == [kind |-> "garbage", table |-> << >>]
Truncated(doc) == [kind |-> "partial", table |-> doc.table]

\* Mutant of ToToml: the font path is not written.
ToToml_DropsFont(cfg) ==
    Toml([f \in { g \in FieldSet \ { "font_path" } : IsSome(cfg[g]) } |-> Unwrap(cfg[f])])

\* toml::to_string_pretty of a ConfigFile: a field that is None is not written.
ToToml(cfg) == Toml([f \in { g \in FieldSet : IsSome(cfg[g]) } |-> Unwrap(cfg[f])])

\* toml::from_str::<ConfigFile>: a key that is missing gives None; text that is
\* not a TOML ConfigFile gives an error (None here).
FromToml(doc) ==
    IF doc.kind = "toml"
    THEN Some([f \in FieldSet |-> IF f \in DOMAIN doc.table THEN Some(doc.table[f]) ELSE None])
    ELSE None

\* The placeholder argument replaced by the ROM path.
RomToken == "{rom}"

\* Configuration documents the model starts from.
TmplNes == Tmpl("fceux", << "--fullscreen", RomToken >>, Some(<< "nes" >>), None)
TmplNesVisible == Tmpl("retroarch", << RomToken, "--rom={rom}", RomToken >>, Some(<< "nes" >>), Some(<< "nes" >>))
TmplSnes == Tmpl("snes9x", << "-v" >>, Some(<< "sfc" >>), None)
Configs ==
    { ToToml(Cfg(Some([k \in {"nes"} |-> TmplNes]), Some(FALSE), None)),
      ToToml(Cfg(Some([k \in {"nes", "snes"} |-> IF k = "nes" THEN TmplNesVisible ELSE TmplSnes]),
                 Some(TRUE), Some("/home/pi/roms"))),
      ToToml(Cfg(None, Some(FALSE), None)) }

\* The configuration load_config starts from.
TmplMgba == Tmpl("mgba-qt", << RomToken >>, None, None)
BuiltIn ==
    [default |-> Some(TmplMgba), systems |-> None, show_empty_systems |-> Some(FALSE),
     controller_map |-> None, default_roms_path |-> None, font_path |-> None]

\* Mutant of LoadConfig: the parsed document replaces the whole configuration.
LoadConfig_Replaces(doc) ==
    LET parsed == FromToml(doc)
    IN  IF IsSome(parsed) THEN Unwrap(parsed) ELSE BuiltIn

\* load_config: each field present in the parsed document replaces the built-in
\* value; a document that does not parse leaves the built-in values.
LoadConfig(doc) ==
    LET parsed == FromToml(doc)
    IN  IF IsSome(parsed)
        THEN [f \in FieldSet |-> IF IsSome(Unwrap(parsed)[f]) THEN Unwrap(parsed)[f]
                                 ELSE BuiltIn[f]]
        ELSE BuiltIn

\* Command-line override of the library root: absent, absolute or relative.
RomsArgs == { None, Some("/srv/roms"), Some("roms") }

\* Directory trees: the regular files below the root, as component sequences.
Trees ==
    { { << "nes", "game.nes" >> },
      { << "nes", "game.nes" >>, << "nes", "Zelda.NES" >> },
      { << "nes", "game.nes" >>, << "nes", "Zelda.NES" >>, << "nes", "save.zip" >>,
        << "SNES", "mario.sfc" >>, << "nes", "readme" >> },
      { << "nes", "game.nes" >>, << "NES" >>, << "game.nes" >> } }

\* main: the CLI argument, else config.default_roms_path, else ./roms.
RomsDir(roms_arg, cfg) ==
    IF IsSome(roms_arg) THEN Unwrap(roms_arg)
    ELSE UnwrapOr(cfg.default_roms_path, "./roms")

\* ------------------------------------------------------------ library scan
IgnoredExts == { "zip", "7z", "rar", "gz", "xz" }

\* All orders in which a traversal can meet the files of a tree.
RECURSIVE VisitOrders(_)
VisitOrders(tree) ==
    IF tree = {} THEN { << >> }
    ELSE UNION { { << f >> \o o : o \in VisitOrders(tree \ {f}) } : f \in tree }

\* Mutant of ScanKey: the folder name is used as it is spelled.
ScanKey_NoFold(rel) == rel[1]

\* Whether scan_grouped pushes the file rel, and under which key.
ScanKey(rel) == ToLower(rel[1])
ScanKeeps(rel, cfg) ==
    LET ext == ExtOf(rel[Len(rel)])
        sys_l == ScanKey(rel)
    IN  /\ ~ (IsSome(ext) /\ ToLower(Unwrap(ext)) \in IgnoredExts)
        /\ IsSome(cfg.systems)
        /\ sys_l \in DOMAIN Unwrap(cfg.systems)
        /\ LET tmpl == Unwrap(cfg.systems)[sys_l]
           IN  IF IsSome(tmpl.visible_extensions)
               THEN /\ IsSome(ext)
                    /\ \E i \in DOMAIN Unwrap(tmpl.visible_extensions) :
                          ToLower(Unwrap(tmpl.visible_extensions)[i]) = ToLower(Unwrap(ext))
               ELSE TRUE

\* groups.entry(sys_l).or_default().push(p)
GroupPush(groups, key, p) ==
    IF key \in DOMAIN groups
    THEN [groups EXCEPT ![key] = Append(@, p)]
    ELSE [k \in DOMAIN groups \cup {key} |-> IF k = key THEN << p >> ELSE groups[k]]

RECURSIVE ScanVisit(_, _, _, _)
ScanVisit(order, root, cfg, groups) ==
    IF order = << >> THEN groups
    ELSE LET rel == Head(order)
             next == IF ScanKeeps(rel, cfg)
                     THEN GroupPush(groups, ScanKey(rel), MkPath(root, rel))
                     ELSE groups
         IN  ScanVisit(Tail(order), root, cfg, next)

\* Vec::sort of a path list.
RECURSIVE InsertSorted(_, _)
InsertSorted(p, s) ==
    IF s = << >> THEN << p >>
    ELSE IF PathLess(p, Head(s)) THEN << p >> \o s
    ELSE << Head(s) >> \o InsertSorted(p, Tail(s))

RECURSIVE SortPaths(_)
SortPaths(s) == IF s = << >> THEN << >> ELSE InsertSorted(Head(s), SortPaths(Tail(s)))

\* scan_grouped: visit, push, then sort every list.
EmptyGroups == [k \in {} |-> << >>]

\* Mutant of ScanGrouped: the lists are returned in visit order.
ScanGrouped_Unsorted(order, root, cfg) == ScanVisit(order, root, cfg, EmptyGroups)

ScanGrouped(order, root, cfg) ==
    LET g == ScanVisit(order, root, cfg, EmptyGroups)
    IN  [k \in DOMAIN g |-> SortPaths(g[k])]

\* Mutant of FindSystemForExtension: the extensions are compared as spelled.
RECURSIVE FindSystemForExtension_CaseSensitive(_, _, _)
FindSystemForExtension_CaseSensitive(ext, cfg, systems_order) ==
    IF ~ IsSome(cfg.systems) \/ systems_order = << >> THEN None
    ELSE LET sys == Head(systems_order)
             systems == Unwrap(cfg.systems)
             hit == /\ sys \in DOMAIN systems
                    /\ IsSome(systems[sys].extensions)
                    /\ \E i \in DOMAIN Unwrap(systems[sys].extensions) :
                          Unwrap(systems[sys].extensions)[i] = ext
         IN  IF hit THEN Some(sys)
             ELSE FindSystemForExtension_CaseSensitive(ext, cfg, Tail(systems_order))

\* find_system_for_extension: the first system of systems_order listing ext.
RECURSIVE FindSystemForExtension(_, _, _)
FindSystemForExtension(ext, cfg, systems_order) ==
    IF ~ IsSome(cfg.systems) \/ systems_order = << >> THEN None
    ELSE LET sys == Head(systems_order)
             systems == Unwrap(cfg.systems)
             hit == /\ sys \in DOMAIN systems
                    /\ IsSome(systems[sys].extensions)
                    /\ \E i \in DOMAIN Unwrap(systems[sys].extensions) :
                          ToLower(Unwrap(systems[sys].extensions)[i]) = ToLower(ext)
         IN  IF hit THEN Some(sys)
             ELSE FindSystemForExtension(ext, cfg, Tail(systems_order))

\* ------------------------------------------------------------ system order
\* Orders in which HashMap::keys can yield the configured systems.
KeyOrders(cfg) ==
    IF IsSome(cfg.systems)
    THEN LET ks == DOMAIN Unwrap(cfg.systems)
         IN  { o \in [1..Cardinality(ks) -> ks] : \A i, j \in DOMAIN o : i # j => o[i] # o[j] }
    ELSE { << >> }

\* main: keep a key when it has entries or show_empty_systems is set.
RECURSIVE SystemsVec(_, _, _)
SystemsVec(keys, cfg, groups) ==
    IF keys = << >> THEN << >>
    ELSE LET k_l == ToLower(Head(keys))
             has_entries == k_l \in DOMAIN groups /\ groups[k_l] # << >>
             rest == SystemsVec(Tail(keys), cfg, groups)
         IN  IF has_entries \/ UnwrapOr(cfg.show_empty_systems, FALSE)
             THEN << k_l >> \o rest
             ELSE rest

\* systems_vec.get(idx).and_then(|s| groups.get(s)).unwrap_or_default()
CurrentRoms(systems_order, idx, groups) ==
    IF idx + 1 \in DOMAIN systems_order /\ systems_order[idx + 1] \in DOMAIN groups
    THEN groups[systems_order[idx + 1]]
    ELSE << >>

\* An OsString is the sequence of the components it spells: a literal argument
\* is one component, a path is its root followed by its components.
OsFromStr(a) == << a >>
AsOsStr(p) == << p.root >> \o p.rel

\* Mutant of BuildArgs: only the first placeholder is replaced.
RECURSIVE BuildArgs_FirstOnly(_, _)
BuildArgs_FirstOnly(args, rom) ==
    IF args = << >> THEN << >>
    ELSE IF Head(args) = RomToken
         THEN << AsOsStr(rom) >> \o [i \in 1..(Len(args) - 1) |-> OsFromStr(args[i + 1])]
         ELSE << OsFromStr(Head(args)) >> \o BuildArgs_FirstOnly(Tail(args), rom)

\* spawn_emulator_template: the argument list handed to Command.
RECURSIVE BuildArgs(_, _)
BuildArgs(args, rom) ==
    IF args = << >> THEN << >>
    ELSE << IF Head(args) = RomToken THEN AsOsStr(rom) ELSE OsFromStr(Head(args)) >>
         \o BuildArgs(Tail(args), rom)

\* ------------------------------------------------------------------- state
Threads == 1..MaxThreads

VARIABLES
    config,              \* main: config
    roms_dir,            \* main: roms_dir
    tree,                \* the files below roms_dir on disk
    groups,              \* main: groups (the library index)
    systems_vec,         \* main: systems_vec
    current_system_idx,  \* main: current_system_idx
    current_roms,        \* main: current_roms
    selected,            \* main: selected
    scroll_offset,       \* main: scroll_offset
    launching,           \* main: launching
    running,             \* the main thread is in its 'running loop
    panicked,            \* the main thread panicked
    error_overlay,       \* main: error_overlay (message only)
    menu_message,        \* main: menu_message (message only)
    menu_state,          \* main: menu_state
    menu_next_state,     \* main: menu_next_state, pending until the events are drained
    should_quit,         \* process_menu: should_quit
    disk,                \* the document in the user's config.toml
    chan,                \* messages in the completion channel (tx, rx)
    kill_chan,           \* messages in the hotkey channel (kill_tx, kill_rx)
    slot,                \* current_child: 0 is None, t is the child of thread t
    lock,                \* holder of the slot mutex across steps, or "free"
    spc,                 \* position of each launch thread
    job,                 \* template and rom moved into each launch thread
    argv,                \* program and arguments each thread handed to Command
    sres,                \* how each thread's spawn_emulator_template ended
    proc,                \* OS state of each thread's child process
    orphan,              \* a started process is alive and its thread has ended
    kpc,                 \* position of the caller of kill_current_emulator
    kres,                \* result of the kill_current_emulator call
    elapsed,             \* start.elapsed() in kill_current_emulator, in ms
    cleared,             \* per child: the steps that took it out of the slot
    overwrote,           \* a store replaced a handle that was in the slot
    probe,               \* a call of a function on its own: its input and its result
    wpc,                 \* position of the caller of write_config
    wres,                \* result of the write_config call
    tmp_file,            \* content of config.toml.tmp
    now,                 \* time of the input event being handled, in ms
    held,                \* the controller buttons that are down
    press_at,            \* ComboTracker: per chord button, the tracked press time
    fired_at,            \* ComboTracker: the times the chord fired; the last one is
                         \* the cooldown timestamp
    event_pump,          \* main: event_pump, the SDL events delivered and not yet taken
    mpc                  \* where main takes its next event: "poll" or "wait"

\* What the main loop and its threads leave alone: the library root, the files
\* below it, and the state of the calls examined on their own.
saveVars == << wpc, wres, tmp_file >>
padVars == << now, held, press_at, fired_at >>
pumpVars == << event_pump, mpc >>
envVars == << roms_dir, tree, probe, saveVars, padVars, pumpVars >>
libVars == << config, envVars, groups, systems_vec >>
browseVars == << current_system_idx, current_roms, selected, scroll_offset >>
msgVars == << error_overlay, menu_message >>
loopVars == << running, panicked >>
menuVars == << menu_state, menu_next_state, should_quit, disk >>
uiVars == << libVars, browseVars, msgVars, loopVars, menuVars >>
supVars == << spc, job, argv, sres >>
killVars == << kpc, kres, elapsed >>
histVars == << cleared, overwrote >>
vars == << uiVars, launching, chan, kill_chan, slot, lock, supVars, proc, orphan,
           killVars, histVars >>

NoJob == << >>

\* No function is examined on its own.
NoProbe == [fn |-> "none"]

\* A path at which no file exists.

\* The controller buttons of the kill chord.
ChordButtons == { "Start", "LeftShoulder", "RightShoulder" }
NoArgv == << >>

\* ------------------------------------------------------------- menu values
\* The item list built whenever the menu is opened.
MenuItems ==
    << "Toggle show_empty_systems", "Remap controls", "Reload config", "Save config", "Close" >>

\* The fixed action list of the remap capture.
RemapActions == << "A", "B", "UP", "DOWN", "LEFT", "RIGHT", "START" >>

\* HashMap::new() and HashMap::insert.
EmptyMap == [k \in {} |-> ""]
MapInsert(m, k, v) == [x \in (DOMAIN m) \cup {k} |-> IF x = k THEN v ELSE m[x]]

\* MenuState: Closed, Open { items, selected }, Remap { actions, idx, temp_map }.
MenuClosed ==
    [kind |-> "Closed", items |-> << >>, selected |-> 0, idx |-> 0, temp_map |-> EmptyMap]
MenuOpen(items, msel) ==
    [kind |-> "Open", items |-> items, selected |-> msel, idx |-> 0, temp_map |-> EmptyMap]
MenuRemap(actions, idx, temp_map) ==
    [kind |-> "Remap", items |-> actions, selected |-> 0, idx |-> idx, temp_map |-> temp_map]

\* Mutant of BrowseInput: events reach the browse/launch handlers under a menu.
BrowseInput_IgnoresMenu == running

\* The poll loop hands an event to the browse/launch handlers only when no menu
\* or remap overlay is open; otherwise the event is buffered for the menu.
BrowseInput == running /\ menu_state.kind = "Closed"

Started(docs) ==
    /\ disk \in docs
    /\ config = LoadConfig(disk)
    /\ \E roms_arg \in RomsArgs : roms_dir = RomsDir(roms_arg, config)
    /\ tree \in Trees
    /\ \E order \in VisitOrders(tree) : groups = ScanGrouped(order, roms_dir, config)
    /\ \E keys \in KeyOrders(config) : systems_vec = SystemsVec(keys, config, groups)
    /\ current_system_idx = 0
    /\ current_roms = CurrentRoms(systems_vec, current_system_idx, groups)
    /\ selected = 0
    /\ scroll_offset = 0
    /\ menu_state = MenuClosed
    /\ menu_next_state = "none"
    /\ should_quit = FALSE
    /\ launching = FALSE
    /\ running = TRUE
    /\ panicked = FALSE
    /\ error_overlay = None
    /\ menu_message = None
    /\ chan = 0
    /\ kill_chan = 0
    /\ slot = 0
    /\ lock = "free"
    /\ spc = [t \in Threads |-> "none"]
    /\ job = [t \in Threads |-> NoJob]
    /\ argv = [t \in Threads |-> NoArgv]
    /\ sres = [t \in Threads |-> "none"]
    /\ proc = [t \in Threads |-> "unborn"]
    /\ orphan = FALSE
    /\ kpc = "idle"
    /\ kres = "none"
    /\ elapsed = 0
    /\ cleared = [t \in Threads |-> << >>]
    /\ overwrote = FALSE
    /\ wpc = "idle"
    /\ wres = "none"
    /\ tmp_file = None
    /\ now = 0
    /\ held = {}
    /\ press_at = [b \in ChordButtons |-> None]
    /\ fired_at = << >>
    /\ event_pump = << >>
    /\ mpc = "poll"

\* main is started with one of the configuration documents on disk.
Init == Started(Configs) /\ probe = NoProbe

\* ------------------------------------------------------ main loop: browsing
\* Keycode::Up / CButton::DPadUp
NavUp ==
    /\ BrowseInput /\ ~ launching
    /\ selected' = IF selected > 0 THEN selected - 1 ELSE selected
    /\ scroll_offset' = IF selected > 0 /\ selected' < scroll_offset THEN selected'
                        ELSE scroll_offset
    /\ UNCHANGED << libVars, current_system_idx, current_roms, msgVars, loopVars, menuVars,
                    launching, chan, kill_chan, slot, lock, supVars, proc, orphan, killVars,
                    histVars >>

\* Keycode::Down / CButton::DPadDown
NavDown ==
    /\ BrowseInput /\ ~ launching
    /\ selected' = IF selected + 1 < Len(current_roms) THEN selected + 1 ELSE selected
    /\ scroll_offset' =
          IF selected + 1 < Len(current_roms) /\ selected' >= scroll_offset + VisibleRows
          THEN selected' - VisibleRows + 1
          ELSE scroll_offset
    /\ UNCHANGED << libVars, current_system_idx, current_roms, msgVars, loopVars, menuVars,
                    launching, chan, kill_chan, slot, lock, supVars, proc, orphan, killVars,
                    histVars >>

\* Keycode::Left / CButton::DPadLeft: previous system, wrapping to the last one.
NavLeft ==
    /\ BrowseInput /\ ~ launching
    /\ current_system_idx' =
          IF current_system_idx > 0 THEN current_system_idx - 1
          ELSE IF Len(systems_vec) > 0 THEN Len(systems_vec) - 1 ELSE 0
    /\ current_roms' = CurrentRoms(systems_vec, current_system_idx', groups)
    /\ selected' = 0
    /\ scroll_offset' = 0
    /\ UNCHANGED << libVars, msgVars, loopVars, menuVars, launching,
                    chan, kill_chan, slot, lock, supVars, proc, orphan, killVars, histVars >>

\* Keycode::Right / CButton::DPadRight: (idx + 1) % len, which panics when len is 0.
NavRight ==
    /\ BrowseInput /\ ~ launching
    /\ IF Len(systems_vec) = 0
       THEN /\ running' = FALSE
            /\ panicked' = TRUE
            /\ UNCHANGED browseVars
       ELSE /\ current_system_idx' = (current_system_idx + 1) % Len(systems_vec)
            /\ current_roms' = CurrentRoms(systems_vec, current_system_idx', groups)
            /\ selected' = 0
            /\ scroll_offset' = 0
            /\ UNCHANGED loopVars
    /\ UNCHANGED << libVars, msgVars, menuVars, launching,
                    chan, kill_chan, slot, lock, supVars, proc, orphan, killVars, histVars >>

\* ------------------------------------------------------ main loop: launching
NoEmulatorConfigured(sys) == Some(<< "No emulator configured for system", sys >>)

\* What a confirm input resolves to: a template and rom to launch, an error
\* message for a system, or nothing. with_fallback is the extension fallback
\* of the Return and controller A handlers.
ResolveLaunch(with_fallback) ==
    LET nothing == [kind |-> "nothing", tmpl |-> NoJob, rom |-> NoJob, sys |-> ""]
        launch(t, r) == [kind |-> "launch", tmpl |-> t, rom |-> r, sys |-> ""]
        err(s) == [kind |-> "error", tmpl |-> NoJob, rom |-> NoJob, sys |-> s]
    IN  IF selected + 1 \notin DOMAIN current_roms THEN nothing
        ELSE IF current_system_idx + 1 \notin DOMAIN systems_vec THEN nothing
        ELSE IF ~ IsSome(config.systems) THEN nothing
        ELSE LET rom == current_roms[selected + 1]
                 s == systems_vec[current_system_idx + 1]
                 systems == Unwrap(config.systems)
                 ext == ExtOf(FileName(rom))
                 found == FindSystemForExtension(ToLower(Unwrap(ext)), config, systems_vec)
             IN  IF s \in DOMAIN systems THEN launch(systems[s], rom)
                 ELSE IF ~ with_fallback THEN err(s)
                 ELSE IF ~ IsSome(ext) THEN err(s)
                 ELSE IF ~ IsSome(found) THEN err(s)
                 ELSE IF Unwrap(found) \in DOMAIN systems
                      THEN launch(systems[Unwrap(found)], rom)
                      ELSE err(Unwrap(found))

\* launching = true; thread::spawn(move || { spawn_emulator_template(..); tx.send(()) })
StartThread(t, tmpl, rom) ==
    /\ spc[t] = "none"
    /\ \A u \in Threads : u < t => spc[u] # "none"
    /\ launching' = TRUE
    /\ spc' = [spc EXCEPT ![t] = "spawn"]
    /\ job' = [job EXCEPT ![t] = [tmpl |-> tmpl, rom |-> rom]]

\* Mutant of LaunchGuard: the handlers do not look at the launching flag.
LaunchGuard_Missing == TRUE

\* The guard under which the input handlers that launch are reached.
LaunchGuard == ~ launching

\* A confirm input handled by the browsing logic.
ConfirmWith(with_fallback) ==
    /\ BrowseInput /\ LaunchGuard
    /\ LET r == ResolveLaunch(with_fallback)
       IN  \/ /\ r.kind = "launch"
              /\ \E t \in Threads : StartThread(t, r.tmpl, r.rom)
              /\ UNCHANGED error_overlay
           \/ /\ r.kind = "error"
              /\ error_overlay' = NoEmulatorConfigured(r.sys)
              /\ UNCHANGED << launching, spc, job >>
           \/ /\ r.kind = "nothing"
              /\ UNCHANGED << launching, spc, job, error_overlay >>
    /\ UNCHANGED << libVars, browseVars, menu_message, loopVars, menuVars, chan, kill_chan,
                    slot, lock, argv, sres, proc, orphan, killVars, histVars >>

\* Keycode::Return
ConfirmReturn == ConfirmWith(TRUE)

\* CButton::A
ConfirmPadA == ConfirmWith(TRUE)

\* JoyButtonDown with button_idx 0
ConfirmJoy0 == ConfirmWith(FALSE)

\* Mutant of MainRecv: the message is taken and the flag is left set.
MainRecv_KeepsFlag ==
    /\ running
    /\ chan > 0
    /\ chan' = chan - 1
    /\ UNCHANGED << uiVars, launching, kill_chan, slot, lock, supVars, proc, orphan,
                    killVars, histVars >>

\* rx.try_recv() at the top of the frame.
MainRecv ==
    /\ running
    /\ chan > 0
    /\ chan' = chan - 1
    /\ launching' = FALSE
    /\ UNCHANGED << uiVars, kill_chan, slot, lock, supVars, proc, orphan, killVars, histVars >>

\* --------------------------------------------- spawn_emulator_template (thread)
\* Command::new(program).args(args) as built before cmd.spawn().
CommandOf(t) ==
    [program |-> job[t].tmpl.program, args |-> BuildArgs(job[t].tmpl.args, job[t].rom)]

\* cmd.spawn() returned Ok(child): the process exists, the handle is not stored yet.
SupSpawnOk(t) ==
    /\ running
    /\ spc[t] = "spawn"
    /\ argv' = [argv EXCEPT ![t] = CommandOf(t)]
    /\ proc' = [proc EXCEPT ![t] = "alive"]
    /\ spc' = [spc EXCEPT ![t] = "store"]
    /\ UNCHANGED << uiVars, launching, chan, kill_chan, slot, lock, job, sres, orphan,
                    killVars, histVars >>

\* Mutant of SupSpawnFail: the thread ends on the error without notifying.
SupSpawnFail_NoSend(t) ==
    /\ running
    /\ spc[t] = "spawn"
    /\ proc' = [proc EXCEPT ![t] = "failed"]
    /\ spc' = [spc EXCEPT ![t] = "none"]
    /\ job' = [job EXCEPT ![t] = NoJob]
    /\ UNCHANGED << uiVars, launching, chan, kill_chan, slot, lock, argv, sres, orphan,
                    killVars, histVars >>

\* cmd.spawn() returned Err: a diagnostic, and the function returns.
SupSpawnFail(t) ==
    /\ running
    /\ spc[t] = "spawn"
    /\ argv' = [argv EXCEPT ![t] = CommandOf(t)]
    /\ proc' = [proc EXCEPT ![t] = "failed"]
    /\ sres' = [sres EXCEPT ![t] = "spawn_failed"]
    /\ spc' = [spc EXCEPT ![t] = "send"]
    /\ UNCHANGED << uiVars, launching, chan, kill_chan, slot, lock, job, orphan,
                    killVars, histVars >>

\* Mutant of SupStore: the handle is not put into the slot.
SupStore_Skipped(t) ==
    /\ running
    /\ spc[t] = "store"
    /\ lock = "free"
    /\ spc' = [spc EXCEPT ![t] = "poll"]
    /\ UNCHANGED << uiVars, launching, chan, kill_chan, slot, lock, job, argv, sres, proc,
                    orphan, killVars, histVars >>

\* { let mut slot = child_slot.lock().unwrap(); *slot = Some(child); }
SupStore(t) ==
    /\ running
    /\ spc[t] = "store"
    /\ lock = "free"
    /\ slot' = t
    /\ overwrote' = (overwrote \/ slot # 0)
    /\ spc' = [spc EXCEPT ![t] = "poll"]
    /\ UNCHANGED << uiVars, launching, chan, kill_chan, lock, job, argv, sres, proc, orphan,
                    killVars, cleared >>

\* Poll under the lock: try_wait returned Ok(Some(status)); slot.take(); break.
SupPollExited(t) ==
    /\ running
    /\ spc[t] = "poll"
    /\ lock = "free"
    /\ slot # 0
    /\ proc[slot] = "zombie"
    /\ proc' = [proc EXCEPT ![slot] = "reaped"]
    /\ cleared' = [cleared EXCEPT ![slot] = Append(@, "sup_exit")]
    /\ slot' = 0
    /\ sres' = [sres EXCEPT ![t] = "exited"]
    /\ spc' = [spc EXCEPT ![t] = "send"]
    /\ UNCHANGED << uiVars, launching, chan, kill_chan, lock, job, argv, orphan,
                    killVars, overwrote >>

\* Poll under the lock: try_wait returned Ok(None); the lock is released, then sleep.
SupPollRunning(t) ==
    /\ running
    /\ spc[t] = "poll"
    /\ lock = "free"
    /\ slot # 0
    /\ proc[slot] = "alive"
    /\ spc' = [spc EXCEPT ![t] = "sleep"]
    /\ UNCHANGED << uiVars, launching, chan, kill_chan, slot, lock, job, argv, sres, proc,
                    orphan, killVars, histVars >>

\* Poll under the lock: try_wait returned Err; slot.take(); break.
SupPollError(t) ==
    /\ running
    /\ spc[t] = "poll"
    /\ lock = "free"
    /\ slot # 0
    /\ cleared' = [cleared EXCEPT ![slot] = Append(@, "sup_wait_error")]
    /\ slot' = 0
    /\ sres' = [sres EXCEPT ![t] = "wait_error"]
    /\ spc' = [spc EXCEPT ![t] = "send"]
    /\ UNCHANGED << uiVars, launching, chan, kill_chan, lock, job, argv, proc, orphan,
                    killVars, overwrote >>

\* Mutant of SupPollEmpty: finding the slot empty, the loop puts its handle back.
SupPollEmpty_PutsBack(t) ==
    /\ running
    /\ spc[t] = "poll"
    /\ lock = "free"
    /\ slot = 0
    /\ slot' = t
    /\ spc' = [spc EXCEPT ![t] = "sleep"]
    /\ UNCHANGED << uiVars, launching, chan, kill_chan, lock, job, argv, sres, proc, orphan,
                    killVars, histVars >>

\* Poll under the lock: the slot is None; break.
SupPollEmpty(t) ==
    /\ running
    /\ spc[t] = "poll"
    /\ lock = "free"
    /\ slot = 0
    /\ sres' = [sres EXCEPT ![t] = "slot_empty"]
    /\ spc' = [spc EXCEPT ![t] = "send"]
    /\ UNCHANGED << uiVars, launching, chan, kill_chan, slot, lock, job, argv, proc, orphan,
                    killVars, histVars >>

\* std::thread::sleep(150 ms) is over; next iteration of the loop.
SupWake(t) ==
    /\ running
    /\ spc[t] = "sleep"
    /\ spc' = [spc EXCEPT ![t] = "poll"]
    /\ UNCHANGED << uiVars, launching, chan, kill_chan, slot, lock, job, argv, sres, proc,
                    orphan, killVars, histVars >>

\* let _ = tx.send(()); the closure returns and the thread with its locals is gone.
\* A child that is still alive stays behind as an untracked process.
SupSend(t) ==
    /\ running
    /\ spc[t] = "send"
    /\ chan' = chan + 1
    /\ orphan' = (orphan \/ proc[t] = "alive")
    /\ spc' = [spc EXCEPT ![t] = "none"]
    /\ job' = [job EXCEPT ![t] = NoJob]
    /\ argv' = [argv EXCEPT ![t] = NoArgv]
    /\ sres' = [sres EXCEPT ![t] = "none"]
    /\ proc' = [proc EXCEPT ![t] = "unborn"]
    /\ cleared' = [cleared EXCEPT ![t] = << >>]
    /\ UNCHANGED << uiVars, launching, kill_chan, slot, lock, killVars, overwrote >>

\* The external program ends by itself or by a signal; it stays unreaped.
ChildExit(t) ==
    /\ proc[t] = "alive"
    /\ proc' = [proc EXCEPT ![t] = "zombie"]
    /\ UNCHANGED << uiVars, launching, chan, kill_chan, slot, lock, supVars, orphan,
                    killVars, histVars >>

\* The last untracked process ends.
OrphanExit ==
    /\ orphan
    /\ orphan' = FALSE
    /\ UNCHANGED << uiVars, launching, chan, kill_chan, slot, lock, supVars, proc,
                    killVars, histVars >>

\* --------------------------------------------------- kill_current_emulator
KillPollMs == 50
KillTimeoutMs == 1000

\* A caller enters kill_current_emulator and waits for child_slot.lock().
KillCall ==
    /\ running
    /\ kpc = "idle"
    /\ kpc' = "lock"
    /\ UNCHANGED << uiVars, launching, chan, kill_chan, slot, lock, supVars, proc, orphan,
                    kres, elapsed, histVars >>

\* The slot is None: Err("No emulator running").
KillEmpty ==
    /\ running
    /\ kpc = "lock"
    /\ lock = "free"
    /\ slot = 0
    /\ kres' = "No emulator running"
    /\ kpc' = "ret"
    /\ UNCHANGED << uiVars, launching, chan, kill_chan, slot, lock, supVars, proc, orphan,
                    elapsed, histVars >>

\* Mutant of KillSignalFail: the handle is dropped when the signal fails.
KillSignalFail_Takes ==
    /\ running
    /\ kpc = "lock"
    /\ lock = "free"
    /\ slot # 0
    /\ slot' = 0
    /\ kres' = "failed to kill process"
    /\ kpc' = "ret"
    /\ UNCHANGED << uiVars, launching, chan, kill_chan, lock, supVars, proc, orphan,
                    elapsed, histVars >>

\* c.kill() returned Err: Err("failed to kill process: ..").
KillSignalFail ==
    /\ running
    /\ kpc = "lock"
    /\ lock = "free"
    /\ slot # 0
    /\ kres' = "failed to kill process"
    /\ kpc' = "ret"
    /\ UNCHANGED << uiVars, launching, chan, kill_chan, slot, lock, supVars, proc, orphan,
                    elapsed, histVars >>

\* c.kill() returned Ok: start = Instant::now(), and the guard stays held.
KillSignalOk ==
    /\ running
    /\ kpc = "lock"
    /\ lock = "free"
    /\ slot # 0
    /\ lock' = "kill"
    /\ elapsed' = 0
    /\ kpc' = "poll"
    /\ UNCHANGED << uiVars, launching, chan, kill_chan, slot, supVars, proc, orphan,
                    kres, histVars >>

\* try_wait returned Ok(Some(status)): slot.take(), Ok("Emulator killed (status: ..)").
KillPollExited ==
    /\ running
    /\ kpc = "poll"
    /\ proc[slot] = "zombie"
    /\ proc' = [proc EXCEPT ![slot] = "reaped"]
    /\ cleared' = [cleared EXCEPT ![slot] = Append(@, "kill_exit")]
    /\ slot' = 0
    /\ lock' = "free"
    /\ elapsed' = 0
    /\ kres' = "Emulator killed"
    /\ kpc' = "ret"
    /\ UNCHANGED << uiVars, launching, chan, kill_chan, supVars, orphan, overwrote >>

\* Mutant of KillPollTimeout: giving up leaves the handle in the slot.
KillPollTimeout_KeepsHandle ==
    /\ running
    /\ kpc = "poll"
    /\ proc[slot] = "alive"
    /\ elapsed > KillTimeoutMs
    /\ lock' = "free"
    /\ elapsed' = 0
    /\ kres' = "Emulator kill signalled"
    /\ kpc' = "ret"
    /\ UNCHANGED << uiVars, launching, chan, kill_chan, slot, supVars, proc, orphan, histVars >>

\* try_wait returned Ok(None) after more than 1 s: slot.take(), Ok("Emulator kill signalled").
KillPollTimeout ==
    /\ running
    /\ kpc = "poll"
    /\ proc[slot] = "alive"
    /\ elapsed > KillTimeoutMs
    /\ cleared' = [cleared EXCEPT ![slot] = Append(@, "kill_timeout")]
    /\ slot' = 0
    /\ lock' = "free"
    /\ elapsed' = 0
    /\ kres' = "Emulator kill signalled"
    /\ kpc' = "ret"
    /\ UNCHANGED << uiVars, launching, chan, kill_chan, supVars, proc, orphan, overwrote >>

\* try_wait returned Ok(None) within the second: sleep 50 ms, the guard still held.
KillPollSleep ==
    /\ running
    /\ kpc = "poll"
    /\ proc[slot] = "alive"
    /\ ~ (elapsed > KillTimeoutMs)
    /\ kpc' = "sleep"
    /\ UNCHANGED << uiVars, launching, chan, kill_chan, slot, lock, supVars, proc, orphan,
                    kres, elapsed, histVars >>

\* The 50 ms sleep is over, or the thread was kept off the CPU past the timeout.
KillWake ==
    /\ running
    /\ kpc = "sleep"
    /\ \E d \in { KillPollMs, KillTimeoutMs + 1 } :
          elapsed' = IF elapsed + d > KillTimeoutMs THEN KillTimeoutMs + 1 ELSE elapsed + d
    /\ kpc' = "poll"
    /\ UNCHANGED << uiVars, launching, chan, kill_chan, slot, lock, supVars, proc, orphan,
                    kres, histVars >>

\* try_wait returned Err: slot.take(), Err("error waiting for process: ..").
KillPollError ==
    /\ running
    /\ kpc = "poll"
    /\ cleared' = [cleared EXCEPT ![slot] = Append(@, "kill_wait_error")]
    /\ slot' = 0
    /\ lock' = "free"
    /\ elapsed' = 0
    /\ kres' = "error waiting for process"
    /\ kpc' = "ret"
    /\ UNCHANGED << uiVars, launching, chan, kill_chan, supVars, proc, orphan, overwrote >>

\* The caller has taken the Result of the call.
KillReturn ==
    /\ running
    /\ kpc = "ret"
    /\ kpc' = "idle"
    /\ kres' = "none"
    /\ UNCHANGED << uiVars, launching, chan, kill_chan, slot, lock, supVars, proc, orphan,
                    elapsed, histVars >>

\* ------------------------------------------------------------ global hotkey
\* The X11 listener thread: kill_tx.send(()) on Ctrl+Alt+K.
HotkeyPress ==
    /\ running
    /\ kill_chan < MaxKillReq
    /\ kill_chan' = kill_chan + 1
    /\ UNCHANGED << uiVars, launching, chan, slot, lock, supVars, proc, orphan,
                    killVars, histVars >>

\* Mutant of MainHotkeyKill: the Result of c.kill() is unwrapped.
MainHotkeyKill_Unwraps ==
    /\ running
    /\ kill_chan > 0
    /\ lock = "free"
    /\ kill_chan' = kill_chan - 1
    /\ \E kill_ok \in BOOLEAN :
          IF slot # 0 /\ ~ kill_ok
          THEN running' = FALSE /\ panicked' = TRUE /\ UNCHANGED menu_message
          ELSE /\ menu_message' = IF slot = 0 THEN Some("No emulator running")
                                  ELSE Some("Killed emulator")
               /\ UNCHANGED loopVars
    /\ UNCHANGED << libVars, browseVars, error_overlay, menuVars, launching, chan,
                    slot, lock, supVars, proc, orphan, killVars, histVars >>

\* kill_rx.try_recv() at the top of the frame: lock, c.kill(), set the message.
MainHotkeyKill ==
    /\ running
    /\ kill_chan > 0
    /\ lock = "free"
    /\ kill_chan' = kill_chan - 1
    /\ \E kill_ok \in BOOLEAN :
          menu_message' = IF slot = 0 THEN Some("No emulator running")
                          ELSE IF kill_ok THEN Some("Killed emulator")
                          ELSE Some("Kill failed")
    /\ UNCHANGED << libVars, browseVars, error_overlay, loopVars, menuVars, launching, chan,
                    slot, lock, supVars, proc, orphan, killVars, histVars >>

\* ------------------------------------------------------ main loop: the menu
\* What the menu handlers never touch.
menuFrame == << envVars, error_overlay, loopVars, launching, chan, kill_chan, slot,
                lock, supVars, proc, orphan, killVars, histVars >>
libState == << config, groups, systems_vec >>

\* Mutant of OpenMenu: the menu opens only while nothing is launching.
OpenMenu_WhenIdle ==
    /\ BrowseInput /\ ~ launching
    /\ menu_state' = MenuOpen(MenuItems, 0)
    /\ UNCHANGED << libState, browseVars, menu_message, menu_next_state, should_quit, disk,
                    menuFrame >>

\* menu_state = MenuState::Open { items, selected: 0 }, with the list built anew.
OpenMenu ==
    /\ BrowseInput
    /\ menu_state' = MenuOpen(MenuItems, 0)
    /\ UNCHANGED << libState, browseVars, menu_message, menu_next_state, should_quit, disk,
                    menuFrame >>

\* Keycode::C
OpenMenuKeyC == OpenMenu

\* CButton::Start
OpenMenuPadStart == OpenMenu

\* JoyButtonDown with button_idx 7
OpenMenuJoy7 == OpenMenu

\* The buffered events are handled while the menu is Open.
MenuInput == running /\ menu_state.kind = "Open"

\* Keycode::Up / CButton::DPadUp in the menu
MenuUp ==
    /\ MenuInput
    /\ menu_state' = [menu_state EXCEPT !.selected = IF @ > 0 THEN @ - 1 ELSE @]
    /\ UNCHANGED << libState, browseVars, menu_message, menu_next_state, should_quit, disk,
                    menuFrame >>

\* Mutant of MenuDown: the index is advanced without looking at the list length.
MenuDown_NoClamp ==
    /\ MenuInput
    /\ menu_state' = [menu_state EXCEPT !.selected = @ + 1]
    /\ UNCHANGED << libState, browseVars, menu_message, menu_next_state, should_quit, disk,
                    menuFrame >>

\* Keycode::Down / CButton::DPadDown in the menu
MenuDown ==
    /\ MenuInput
    /\ menu_state' = [menu_state EXCEPT
                         !.selected = IF @ + 1 < Len(menu_state.items) THEN @ + 1 ELSE @]
    /\ UNCHANGED << libState, browseVars, menu_message, menu_next_state, should_quit, disk,
                    menuFrame >>

\* items[*msel]: the index must be inside the list, else the handler panics.
SelLabel == menu_state.items[menu_state.selected + 1]

\* config.show_empty_systems = Some(!config.show_empty_systems.unwrap_or(false))
ToggleShowEmpty(cfg) ==
    [cfg EXCEPT !.show_empty_systems = Some(~ UnwrapOr(cfg.show_empty_systems, FALSE))]

\* Mutant of ToggleArm: the toggled configuration is also written to the file.
ToggleArm_Persists ==
    LET cur == UnwrapOr(config.show_empty_systems, FALSE)
    IN  /\ config' = ToggleShowEmpty(config)
        /\ disk' = ToToml(config')
        /\ menu_message' = Some(IF cur THEN "show_empty_systems set to false"
                                  ELSE "show_empty_systems set to true")
        /\ UNCHANGED << groups, systems_vec, browseVars, menu_state, menu_next_state,
                        should_quit >>

\* "Toggle show_empty_systems"
ToggleArm ==
    LET cur == UnwrapOr(config.show_empty_systems, FALSE)
    IN  /\ config' = ToggleShowEmpty(config)
        /\ menu_message' = Some(IF cur THEN "show_empty_systems set to false"
                                  ELSE "show_empty_systems set to true")
        /\ UNCHANGED << groups, systems_vec, browseVars, menu_state, menu_next_state,
                        should_quit, disk >>

\* "Remap controls": the remap state is entered and the remaining events dropped.
RemapArm ==
    /\ menu_state' = MenuRemap(RemapActions, 0, EmptyMap)
    /\ menu_next_state' = "none"
    /\ UNCHANGED << libState, browseVars, menu_message, should_quit, disk >>

\* systems_vec.iter().position(|s| s == &prev)
Position(v, x) ==
    IF \E i \in DOMAIN v : v[i] = x
    THEN Some((CHOOSE i \in DOMAIN v : v[i] = x /\ \A j \in 1..(i - 1) : v[j] # x) - 1)
    ELSE None

\* Mutant of ReloadArm: the reload replaces the list and keeps the selection.
ReloadArm_KeepsSelection ==
    LET prev_system == IF current_system_idx + 1 \in DOMAIN systems_vec
                       THEN Some(systems_vec[current_system_idx + 1]) ELSE None
    IN  /\ config' = LoadConfig(disk)
        /\ groups' \in { ScanGrouped(order, roms_dir, config') : order \in VisitOrders(tree) }
        /\ systems_vec' \in { SystemsVec(keys, config', groups') : keys \in KeyOrders(config') }
        /\ current_system_idx' =
              IF IsSome(prev_system)
              THEN UnwrapOr(Position(systems_vec', Unwrap(prev_system)), 0)
              ELSE 0
        /\ current_roms' = CurrentRoms(systems_vec', current_system_idx', groups')
        /\ selected' = selected
        /\ scroll_offset' = 0
        /\ menu_message' = Some("Config reloaded")
        /\ UNCHANGED << menu_state, menu_next_state, should_quit, disk >>

\* "Reload config" by Keycode::Return: load, scan, rebuild systems_vec, restore
\* the system by name, reset the selection.
ReloadArm ==
    LET prev_system == IF current_system_idx + 1 \in DOMAIN systems_vec
                       THEN Some(systems_vec[current_system_idx + 1]) ELSE None
    IN  /\ config' = LoadConfig(disk)
        /\ groups' \in { ScanGrouped(order, roms_dir, config') : order \in VisitOrders(tree) }
        /\ systems_vec' \in { SystemsVec(keys, config', groups') : keys \in KeyOrders(config') }
        /\ current_system_idx' =
              IF IsSome(prev_system)
              THEN UnwrapOr(Position(systems_vec', Unwrap(prev_system)), 0)
              ELSE 0
        /\ current_roms' = CurrentRoms(systems_vec', current_system_idx', groups')
        /\ selected' = 0
        /\ scroll_offset' = 0
        /\ menu_message' = Some("Config reloaded")
        /\ UNCHANGED << menu_state, menu_next_state, should_quit, disk >>

\* "Reload config" by CButton::A: only a message.
ReloadNotImplementedArm ==
    /\ menu_message' = Some("Reload not implemented in-menu; restart app to apply")
    /\ UNCHANGED << libState, browseVars, menu_state, menu_next_state, should_quit, disk >>

\* write_config: the file holds the serialized configuration, or an error is
\* returned and the file is as before.
WriteConfig(cfg, ok) == IF ok THEN disk' = ToToml(cfg) ELSE UNCHANGED disk

\* "Save config"
SaveArm ==
    /\ \E ok \in BOOLEAN :
          /\ WriteConfig(config, ok)
          /\ menu_message' = IF ok THEN Some("Config saved") ELSE Some("Save failed")
    /\ UNCHANGED << libState, browseVars, menu_state, menu_next_state, should_quit >>

\* "Close", Keycode::Escape, CButton::B
CloseArm ==
    /\ menu_next_state' = "closed"
    /\ UNCHANGED << libState, browseVars, menu_message, menu_state, should_quit, disk >>

\* "Exit" (process_menu): quit is requested and the menu closes.
ExitArm ==
    /\ should_quit' = TRUE
    /\ menu_next_state' = "closed"
    /\ UNCHANGED << libState, browseVars, menu_message, menu_state, disk >>

\* "Exit" by JoyButtonDown (process_menu): as ExitArm, and the remaining events
\* are dropped, so that the menu closes at once.
ExitBreakArm ==
    /\ should_quit' = TRUE
    /\ menu_state' = MenuClosed
    /\ menu_next_state' = "none"
    /\ UNCHANGED << libState, browseVars, menu_message, disk >>

\* Any other label.
NoArm == UNCHANGED << libState, browseVars, menu_message, menuVars >>

\* Keycode::Return in the menu
MenuConfirmReturn ==
    /\ MenuInput
    /\ CASE SelLabel = "Toggle show_empty_systems" -> ToggleArm
         [] SelLabel = "Remap controls" -> RemapArm
         [] SelLabel = "Reload config" -> ReloadArm
         [] SelLabel = "Save config" -> SaveArm
         [] SelLabel = "Close" -> CloseArm
         [] SelLabel = "Exit" -> ExitArm
         [] OTHER -> NoArm
    /\ UNCHANGED menuFrame

\* CButton::A in the menu
MenuConfirmPadA ==
    /\ MenuInput
    /\ CASE SelLabel = "Toggle show_empty_systems" -> ToggleArm
         [] SelLabel = "Remap controls" -> RemapArm
         [] SelLabel = "Reload config" -> ReloadNotImplementedArm
         [] SelLabel = "Save config" -> SaveArm
         [] SelLabel = "Close" -> CloseArm
         [] SelLabel = "Exit" -> ExitArm
         [] OTHER -> NoArm
    /\ UNCHANGED menuFrame

\* JoyButtonDown with button_idx 0 in the menu
MenuConfirmJoy0 ==
    /\ MenuInput
    /\ menu_state.selected < Len(menu_state.items)
    /\ CASE SelLabel = "Remap controls" -> RemapArm
         [] SelLabel = "Exit" -> ExitBreakArm
         [] OTHER -> NoArm
    /\ UNCHANGED menuFrame

\* Keycode::Escape / CButton::B in the menu
MenuEscape ==
    /\ MenuInput
    /\ CloseArm
    /\ UNCHANGED menuFrame

\* if let Some(s) = menu_next_state { menu_state = s; } once the events are drained.
MenuApplyNext ==
    /\ MenuInput
    /\ menu_next_state = "closed"
    /\ menu_state' = MenuClosed
    /\ menu_next_state' = "none"
    /\ UNCHANGED << libState, browseVars, menu_message, should_quit, disk, menuFrame >>

\* ------------------------------------------------- main loop: remap capture
\* Events wait_event_timeout can return while a capture is awaited.
RemapEvents ==
    { [kind |-> "ControllerButtonDown", code |-> "A"],
      [kind |-> "JoyButtonDown", code |-> "0"],
      [kind |-> "KeyDown", code |-> "Return"],
      [kind |-> "JoyAxisMotion", code |-> "0"] }

\* The events explored together with browsing, launching and the menu.
UiRemapEvents == { evt \in RemapEvents : evt.kind \in { "ControllerButtonDown", "KeyDown" } }

\* The event kinds a capture accepts.
IsCapture(evt) == evt.kind \in { "ControllerButtonDown", "JoyButtonDown" }

\* format!("controller:{:?}", button) / format!("joybutton:{}", button_idx)
CaptureKey(evt) ==
    IF evt.kind = "ControllerButtonDown" THEN << "controller", evt.code >>
    ELSE << "joybutton", evt.code >>

\* Entries of a partial map that were captured from a joystick button.
JoyCaptures(m) == Cardinality({ k \in DOMAIN m : m[k][1] = "joybutton" })

\* Mutant of RemapAfter: every capture is stored under the first action.
RemapAfter_SameAction(ms, evt) ==
    IF IsCapture(evt) /\ ms.idx + 1 \in DOMAIN ms.items
    THEN MenuRemap(ms.items, ms.idx + 1, MapInsert(ms.temp_map, ms.items[1], CaptureKey(evt)))
    ELSE ms

\* The match on the captured event: the remap state after it.
RemapAfter(ms, evt) ==
    IF IsCapture(evt) /\ ms.idx + 1 \in DOMAIN ms.items
    THEN MenuRemap(ms.items, ms.idx + 1, MapInsert(ms.temp_map, ms.items[ms.idx + 1], CaptureKey(evt)))
    ELSE ms

\* One frame in the remap state: one event is awaited (up to 3 s) and matched,
\* then the map is committed and saved when every action has a key.
RemapCapture(evt) ==
    /\ running /\ menu_state.kind = "Remap"
    /\ evt.kind = "JoyButtonDown" => JoyCaptures(menu_state.temp_map) < MaxJoyCaptures
    /\ LET after == RemapAfter(menu_state, evt)
       IN  IF after.idx >= Len(after.items)
           THEN /\ config' = [config EXCEPT !.controller_map = Some(after.temp_map)]
                /\ \E ok \in BOOLEAN :
                      /\ WriteConfig(config', ok)
                      /\ menu_message' = IF ok THEN Some("Controller mapping saved")
                                         ELSE Some("Save failed")
                /\ menu_state' = MenuClosed
           ELSE /\ menu_state' = after
                /\ UNCHANGED << config, menu_message, disk >>
    /\ UNCHANGED << groups, systems_vec, browseVars, menu_next_state, should_quit, menuFrame >>

\* ------------------------------------------------------------ specification
Next ==
    \/ NavUp
    \/ NavDown
    \/ NavLeft
    \/ NavRight
    \/ ConfirmReturn
    \/ ConfirmPadA
    \/ ConfirmJoy0
    \/ MainRecv
    \/ HotkeyPress
    \/ MainHotkeyKill
    \/ \E t \in Threads : SupSpawnOk(t)
    \/ \E t \in Threads : SupSpawnFail(t)
    \/ \E t \in Threads : SupStore(t)
    \/ \E t \in Threads : SupPollExited(t)
    \/ \E t \in Threads : SupPollRunning(t)
    \/ \E t \in Threads : SupPollError(t)
    \/ \E t \in Threads : SupPollEmpty(t)
    \/ \E t \in Threads : SupWake(t)
    \/ \E t \in Threads : SupSend(t)
    \/ \E t \in Threads : ChildExit(t)
    \/ OrphanExit
    \/ KillCall
    \/ KillEmpty
    \/ KillSignalFail
    \/ KillSignalOk
    \/ KillPollExited
    \/ KillPollTimeout
    \/ KillPollSleep
    \/ KillWake
    \/ KillPollError
    \/ KillReturn

Spec == Init /\ [][Next]_vars

\* The main loop with its menu and the launch threads. main never calls
\* kill_current_emulator, so the kill steps are left to Spec, where the menu
\* stays closed.
UiNext ==
    \/ NavUp
    \/ NavDown
    \/ NavLeft
    \/ NavRight
    \/ ConfirmReturn
    \/ ConfirmPadA
    \/ ConfirmJoy0
    \/ MainRecv
    \/ OpenMenuKeyC
    \/ OpenMenuPadStart
    \/ OpenMenuJoy7
    \/ MenuUp
    \/ MenuDown
    \/ MenuConfirmReturn
    \/ MenuConfirmPadA
    \/ MenuConfirmJoy0
    \/ MenuEscape
    \/ MenuApplyNext
    \/ \E evt \in UiRemapEvents : RemapCapture(evt)
    \/ \E t \in Threads : SupSpawnOk(t)
    \/ \E t \in Threads : SupSpawnFail(t)
    \/ \E t \in Threads : SupStore(t)
    \/ \E t \in Threads : SupPollExited(t)
    \/ \E t \in Threads : SupPollRunning(t)
    \/ \E t \in Threads : SupPollError(t)
    \/ \E t \in Threads : SupWake(t)
    \/ \E t \in Threads : SupSend(t)
    \/ \E t \in Threads : ChildExit(t)
    \/ OrphanExit

\* Started without a command-line argument, with a config.toml that defines
\* two systems and a library of two files.
UiInit ==
    /\ Init
    /\ roms_dir = RomsDir(None, config)
    /\ IsSome(config.systems) /\ Cardinality(DOMAIN Unwrap(config.systems)) = 2
    /\ Cardinality(tree) = 2

UiSpec == UiInit /\ [][UiNext]_vars

\* The library scan at startup and at every reload asked for in the menu, for
\* every configuration, library root and tree.
ScanNext ==
    \/ OpenMenuKeyC
    \/ MenuUp
    \/ MenuDown
    \/ MenuConfirmReturn
    \/ MenuEscape
    \/ MenuApplyNext
    \/ \E evt \in UiRemapEvents : RemapCapture(evt)

ScanSpec == Init /\ [][ScanNext]_vars

\* The remap capture with every kind of event, from the default library root
\* and the smallest tree, entered from the menu by the joystick.
RemapInit == Init /\ roms_dir = "./roms" /\ Cardinality(tree) = 1

RemapNext ==
    \/ OpenMenuKeyC
    \/ OpenMenuPadStart
    \/ OpenMenuJoy7
    \/ MenuUp
    \/ MenuDown
    \/ MenuConfirmJoy0
    \/ MenuEscape
    \/ MenuApplyNext
    \/ \E evt \in RemapEvents : RemapCapture(evt)

RemapSpec == RemapInit /\ [][RemapNext]_vars

\* Every step of the thread of launch t, and every step inside kill_current_emulator.
SupStep(t) ==
    \/ SupSpawnOk(t) \/ SupSpawnFail(t) \/ SupStore(t)
    \/ SupPollExited(t) \/ SupPollRunning(t) \/ SupPollError(t) \/ SupPollEmpty(t)
    \/ SupWake(t) \/ SupSend(t)
KillStep ==
    \/ KillEmpty \/ KillSignalFail \/ KillSignalOk
    \/ KillPollExited \/ KillPollTimeout \/ KillPollSleep \/ KillWake \/ KillPollError
    \/ KillReturn

\* The OS keeps scheduling each started thread, and the main loop keeps running frames.
FairSpec ==
    /\ Spec
    /\ \A t \in Threads : WF_vars(SupStep(t))
    /\ WF_vars(KillStep)
    /\ WF_vars(MainRecv)

\* ------------------------------------------------------------------ claims
KillClears == { "kill_exit", "kill_timeout", "kill_wait_error" }
SupClears == { "sup_exit", "sup_wait_error" }
Live(t) == spc[t] # "none"
\* cmd.spawn() of thread t returned Ok.
SpawnSucceeded(t) == proc[t] \in { "alive", "zombie", "reaped" }
\* Thread t has put its handle into the slot.
Stored(t) == spc[t] \in { "poll", "sleep" } \/ (spc[t] = "send" /\ sres[t] # "spawn_failed")
ObservedExitOrKill(t) ==
    \E i \in DOMAIN cleared[t] : cleared[t][i] \in { "sup_exit" } \cup KillClears

\* C1 (as stated): the slot is non-empty iff exactly one spawn has succeeded and
\* neither an exit nor a completed kill of that child has since been observed.
\* A spawn counts as succeeded once spawn_emulator_template has stored the
\* handle, the earliest point at which the slot could be non-empty.
C1_SlotIffSpawnedUnobserved ==
    (slot # 0) <=>
        Cardinality({ t \in Threads :
            Stored(t) /\ SpawnSucceeded(t) /\ ~ ObservedExitOrKill(t) }) = 1

\* C1 (amended): the slot holds a child iff that child is the one child whose
\* spawn succeeded and stored its handle and for which neither an exit, a wait
\* error nor a completed kill has since been observed.
C1_SlotIffStoredUncleared ==
    /\ slot # 0 => (Stored(slot) /\ SpawnSucceeded(slot) /\ cleared[slot] = << >>)
    /\ \A t \in Threads : (Stored(t) /\ cleared[t] = << >>) => slot = t

\* A wait error in the poll loop emptied the slot: the child is alive, and
\* neither an exit nor a kill of it was observed.
C1_Witness ==
    \E t \in Threads :
        /\ spc[t] = "send" /\ sres[t] = "wait_error"
        /\ proc[t] = "alive" /\ cleared[t] = << "sup_wait_error" >> /\ slot = 0

\* C2: a launch thread is started only while launching is false; while launching
\* is false no launch thread is alive and the slot is empty; no store replaces a
\* handle; at most one launch thread exists.
C2_OneLaunchAtATime ==
    /\ [] /\ Cardinality({ t \in Threads : Live(t) }) <= 1
          /\ ~ launching => (slot = 0 /\ \A t \in Threads : ~ Live(t))
          /\ ~ overwrote
    /\ [][(\E t \in Threads : ~ Live(t) /\ spc'[t] # "none") => (~ launching /\ launching')]_vars

\* A launch is in progress, its child is tracked and its thread sleeps between polls.
C2_Witness ==
    \E t \in Threads : launching /\ slot = t /\ spc[t] = "sleep" /\ proc[t] = "alive"

\* C3: for each tracked child the slot goes from present to empty once, by one of
\* the poll loop and kill; the other then finds the slot empty and ends normally
\* (the loop returns, kill answers "No emulator running"); a handle is only ever
\* stored by its own thread's store step, into an empty slot.
C3_KillExitRace ==
    /\ [] /\ \A t \in Threads : Len(cleared[t]) <= 1
          /\ \A t \in Threads :
                (spc[t] = "send" /\ Stored(t)) =>
                    /\ Len(cleared[t]) = 1
                    /\ sres[t] = "slot_empty" <=> cleared[t][1] \in KillClears
                    /\ sres[t] = "exited" <=> cleared[t][1] = "sup_exit"
                    /\ sres[t] = "wait_error" <=> cleared[t][1] = "sup_wait_error"
    /\ [][/\ (slot' # slot /\ slot' # 0) => (slot = 0 /\ spc[slot'] = "store")
          /\ (kpc = "lock" /\ kpc' # "lock" /\ slot = 0) =>
                (kpc' = "ret" /\ kres' = "No emulator running" /\ slot' = 0)]_vars

\* kill took the child out of the slot and the poll loop, finding the slot
\* empty, has returned.
C3_Witness ==
    \E t \in Threads :
        spc[t] = "send" /\ sres[t] = "slot_empty" /\ cleared[t] = << "kill_exit" >> /\ slot = 0

\* C4: a thread that sleeps between polls does not hold the slot mutex.
C4_NoLockAcrossSleep ==
    /\ kpc = "sleep" => lock # "kill"
    /\ \A t \in Threads : spc[t] = "sleep" => lock # "sup"

\* C5: kill leaves the slot as it was on its two early failures: "No emulator
\* running" on an empty slot, the signal error with the same child still held.
C5_KillEarlyFailures ==
    [][(kpc = "lock" /\ kpc' = "ret") =>
          /\ slot' = slot
          /\ kres' \in { "No emulator running", "failed to kill process" }
          /\ kres' = "No emulator running" <=> slot = 0]_vars

\* The terminate signal failed to send: kill has returned that error and the
\* child is still in the slot.
C5_Witness ==
    kpc = "ret" /\ kres = "failed to kill process" /\ slot # 0 /\ cleared[slot] = << >>

\* C6: once the terminate signal is accepted, the slot is empty when kill returns,
\* whether the child exited, the timeout elapsed or polling failed.
C6_KillAcceptedEmptiesSlot ==
    /\ [](kpc \in { "poll", "sleep" } => (lock = "kill" /\ slot # 0))
    /\ [][(kpc = "poll" /\ kpc' # "poll" /\ kpc' # "sleep") =>
             /\ kpc' = "ret" /\ slot' = 0 /\ lock' = "free"
             /\ kres' \in { "Emulator killed", "Emulator kill signalled",
                            "error waiting for process" }
             /\ kres' = "Emulator killed" => proc[slot] = "zombie"
             /\ kres' = "Emulator kill signalled" => (proc[slot] = "alive" /\ elapsed > KillTimeoutMs)]_vars

\* The timeout elapsed with the child still alive: kill returned "Emulator kill
\* signalled" and the slot is empty.
C6_Witness ==
    /\ kpc = "ret" /\ kres = "Emulator kill signalled" /\ slot = 0
    /\ \E t \in Threads : proc[t] = "alive" /\ cleared[t] = << "kill_timeout" >>

\* C7: when cmd.spawn() fails the slot is not touched and is empty, the function
\* returns without polling, and the thread still sends its completion message,
\* so that launching is cleared.
C7_SpawnFailure ==
    /\ [](\A t \in Threads : sres[t] = "spawn_failed" => (spc[t] = "send" /\ launching))
    /\ [][\A t \in Threads :
            /\ (spc[t] = "spawn" /\ proc'[t] = "failed") =>
                  (slot = 0 /\ slot' = 0 /\ spc'[t] = "send" /\ cleared'[t] = << >>)
            /\ (sres[t] = "spawn_failed" /\ spc'[t] # spc[t]) =>
                  (chan' = chan + 1 /\ slot' = slot)]_vars
    /\ (\E t \in Threads : sres[t] = "spawn_failed") ~> (~ launching \/ ~ running)

\* The program failed to start and the completion message of that launch is in
\* the channel, the slot being empty.
C7_Witness ==
    /\ \E t \in Threads : sres[t] = "spawn_failed" /\ spc[t] = "send" /\ slot = 0
    /\ launching

\* C8: every launch produces exactly one completion message (launching is set iff
\* exactly one launch thread or one unread message exists), and under fairness
\* launching is cleared once the child has exited, a wait error occurred or a kill
\* emptied the slot.
C8_CompletionNotification ==
    /\ [](Cardinality({ t \in Threads : Live(t) }) + chan = IF launching THEN 1 ELSE 0)
    /\ [][chan' > chan => (chan' = chan + 1 /\ \E t \in Threads : spc[t] = "send" /\ ~ Live(t)')]_vars
    /\ (\E t \in Threads : Live(t) /\ (proc[t] = "zombie" \/ cleared[t] # << >>))
          ~> (~ launching \/ ~ running)

\* The child has exited, the poll loop has seen it and the message is in the
\* channel while launching is still set.
C8_Witness == chan = 1 /\ launching /\ slot = 0 /\ \A t \in Threads : ~ Live(t)

\* C9: the argument list has the length and order of the template's; each
\* argument equal to the placeholder is the rom path, each other one is unchanged.
C9_ArgumentList ==
    \A t \in Threads :
        argv[t] # NoArgv =>
            LET a == job[t].tmpl.args
                b == argv[t].args
            IN  /\ argv[t].program = job[t].tmpl.program
                /\ Len(b) = Len(a)
                /\ \A i \in 1..Len(a) :
                      b[i] = IF a[i] = RomToken THEN AsOsStr(job[t].rom) ELSE OsFromStr(a[i])

\* A template with the placeholder twice and an argument that only contains it.
C9_Witness ==
    \E t \in Threads :
        /\ argv[t] # NoArgv
        /\ job[t].tmpl.args = << RomToken, "--rom={rom}", RomToken >>
        /\ argv[t].args = << AsOsStr(job[t].rom), << "--rom={rom}" >>, AsOsStr(job[t].rom) >>

\* C10: with nes/game.nes below the root and system nes configured with extension
\* nes, the scan yields the one system nes with that one file, and confirming it
\* starts the configured program with the absolute path of game.nes in place of
\* the placeholder, also for a root given as a relative path.
C10_EndToEnd ==
    (tree = { << "nes", "game.nes" >> } /\ IsSome(config.systems)
        /\ DOMAIN Unwrap(config.systems) = { "nes" }) =>
        /\ DOMAIN groups = { "nes" }
        /\ Len(groups["nes"]) = 1
        /\ groups["nes"][1].rel = << "nes", "game.nes" >>
        /\ \A t \in Threads :
              argv[t] # NoArgv =>
                  /\ argv[t].program = Unwrap(config.systems)["nes"].program
                  /\ argv[t].args = << << "--fullscreen" >>, AsOsStr(groups["nes"][1]) >>
                  /\ IsAbsoluteDir(argv[t].args[2][1])

\* --------------------------------------------------------------- the menu
\* --------------------------------------------- find_system_for_extension
\* Templates whose extension lists overlap when case is ignored, and one
\* without a list.
TmplFamicom == Tmpl("mesen", << RomToken >>, Some(<< "fds", "NES" >>), None)
TmplAny == Tmpl("retroarch", << RomToken >>, None, None)
FindSystems ==
    [k \in { "nes", "famicom", "snes", "any" } |->
        CASE k = "nes" -> TmplNes
          [] k = "famicom" -> TmplFamicom
          [] k = "snes" -> TmplSnes
          [] OTHER -> TmplAny]
FindConfigs ==
    { LoadConfig(ToToml(Cfg(Some(FindSystems), Some(FALSE), None))),
      LoadConfig(ToToml(Cfg(None, Some(FALSE), None))) }
FindExts == { "nes", "NES", "fds", "sfc", "zip" }

\* systems_order: up to three names without repetition, one of them unknown
\* to the configuration.
FindOrders ==
    LET names == { "nes", "famicom", "any", "ghost" }
    IN  UNION { { o \in [1..n -> names] : \A i, j \in 1..n : i # j => o[i] # o[j] } : n \in 0..3 }

FindProbes ==
    { [fn |-> "find_system_for_extension", ext |-> e, cfg |-> c, systems_order |-> o,
       done |-> FALSE, out |-> None] : e \in FindExts, c \in FindConfigs, o \in FindOrders }

\* let found = find_system_for_extension(ext, &cfg, &systems_order)
FindCall ==
    /\ probe.fn = "find_system_for_extension" /\ ~ probe.done
    /\ probe' = [probe EXCEPT !.done = TRUE,
                               !.out = FindSystemForExtension(probe.ext, probe.cfg,
                                                              probe.systems_order)]
    /\ UNCHANGED << config, roms_dir, tree, groups, systems_vec, saveVars, padVars,
                    pumpVars, browseVars, msgVars, loopVars, menuVars, launching, chan, kill_chan,
                    slot, lock, supVars, proc, orphan, killVars, histVars >>

FindInit ==
    /\ Started(Configs)
    /\ roms_dir = "./roms" /\ Cardinality(tree) = 1 /\ ~ IsSome(config.systems)
    /\ probe \in FindProbes

FindSpec == FindInit /\ [][FindCall]_vars

\* ------------------------------------------------- loading the configuration
\* A value for each field of a document, none of them the built-in one.
SampleValue(f) ==
    CASE f = "default" -> TmplSnes
      [] f = "systems" -> [k \in {"nes"} |-> TmplNes]
      [] f = "show_empty_systems" -> TRUE
      [] f = "controller_map" -> [a \in {"A"} |-> << "controller", "A" >>]
      [] f = "default_roms_path" -> "/home/pi/roms"
      [] f = "font_path" -> "DejaVuSans.ttf"

\* Documents with every subset of the six keys, and one that does not parse.
SubsetDocs == { Toml([f \in present |-> SampleValue(f)]) : present \in SUBSET FieldSet }
LoadDocs == SubsetDocs \cup { Garbage }

\* Another program rewrites config.toml while the frontend runs.
EditFile ==
    /\ running
    /\ disk # Garbage
    /\ disk' = Garbage
    /\ UNCHANGED << libState, browseVars, menu_message, menu_state, menu_next_state,
                    should_quit, menuFrame >>

\* main is started on any of the documents and is driven through the menu by
\* the keyboard.
LoadInit ==
    /\ Started(LoadDocs)
    /\ roms_dir = RomsDir(None, config)
    /\ Cardinality(tree) = 1
    /\ probe = NoProbe

LoadNext ==
    \/ OpenMenuKeyC
    \/ MenuUp
    \/ MenuDown
    \/ MenuConfirmReturn
    \/ MenuEscape
    \/ MenuApplyNext
    \/ \E evt \in UiRemapEvents : RemapCapture(evt)
    \/ EditFile

LoadSpec == LoadInit /\ [][LoadNext]_vars

\* ------------------------------------------------------- write_config by step
\* No file and no path: neither XDG_CONFIG_HOME nor a home directory is set.
NoPath == [kind |-> "nopath", table |-> << >>]

threadVars == << launching, chan, kill_chan, slot, lock, supVars, proc, orphan, killVars,
                 histVars >>
saveFrame == << libState, roms_dir, tree, probe, padVars, pumpVars, browseVars, error_overlay,
                menu_state, menu_next_state, should_quit, threadVars >>

\* Return on "Save config": main enters write_config(&config).
SaveCall ==
    /\ MenuInput /\ wpc = "idle"
    /\ SelLabel = "Save config"
    /\ wpc' = "path"
    /\ UNCHANGED << wres, tmp_file, disk, menu_message, loopVars, saveFrame >>

\* write_config returns Err(msg) from the step it is at.
SaveFail(msg) ==
    /\ wres' = msg
    /\ wpc' = "return"
    /\ UNCHANGED << tmp_file, disk, menu_message, loopVars, saveFrame >>

\* The next step of write_config is reached.
SaveGoto(pc) ==
    /\ wpc' = pc
    /\ UNCHANGED << wres, tmp_file, disk, menu_message, loopVars, saveFrame >>

\* user_config_path()
SavePath ==
    /\ wpc = "path"
    /\ IF disk.kind = "nopath" THEN SaveFail("No config path available")
       ELSE SaveGoto("mkdir")

\* std::fs::create_dir_all(parent)
SaveMkdir ==
    /\ wpc = "mkdir"
    /\ \/ SaveGoto("serialize")
       \/ SaveFail("Failed to create config dir")

\* toml::to_string_pretty(cfg)
SaveSerialize ==
    /\ wpc = "serialize"
    /\ \/ SaveGoto("write")
       \/ SaveFail("Failed to serialize config")

\* Mutant of SaveWriteOpen: the text is written to config.toml itself.
SaveWriteOpen_InPlace ==
    /\ wpc = "write"
    /\ \/ /\ disk' = Truncated(ToToml(config))
          /\ wpc' = "writing"
          /\ UNCHANGED << wres, tmp_file, menu_message, loopVars, saveFrame >>
       \/ SaveFail("Failed writing tmp config")

\* std::fs::write(&tmp, s): the temporary file is created or emptied and the
\* first bytes are written, or it cannot be opened.
SaveWriteOpen ==
    /\ wpc = "write"
    /\ \/ /\ tmp_file' = Some(Truncated(ToToml(config)))
          /\ wpc' = "writing"
          /\ UNCHANGED << wres, disk, menu_message, loopVars, saveFrame >>
       \/ SaveFail("Failed writing tmp config")

\* std::fs::write(&tmp, s): the rest of the bytes is written, or the write fails
\* and leaves what was written.
SaveWriteRest ==
    /\ wpc = "writing"
    /\ \/ /\ tmp_file' = Some(ToToml(config))
          /\ wpc' = "rename"
          /\ UNCHANGED << wres, disk, menu_message, loopVars, saveFrame >>
       \/ SaveFail("Failed writing tmp config")

\* Mutant of SaveRename: a failed rename is reported as a failed write.
SaveRename_ReportsWrite ==
    /\ wpc = "rename"
    /\ \/ /\ disk' = Unwrap(tmp_file)
          /\ tmp_file' = None
          /\ wres' = "ok"
          /\ wpc' = "return"
          /\ UNCHANGED << menu_message, loopVars, saveFrame >>
       \/ SaveFail("Failed writing tmp config")

\* std::fs::rename(&tmp, &p): the temporary file takes the place of config.toml
\* in one step, or nothing changes.
SaveRename ==
    /\ wpc = "rename"
    /\ \/ /\ disk' = Unwrap(tmp_file)
          /\ tmp_file' = None
          /\ wres' = "ok"
          /\ wpc' = "return"
          /\ UNCHANGED << menu_message, loopVars, saveFrame >>
       \/ SaveFail("Failed renaming config")

\* format!("Save failed: {}", e)
SaveFailedMessage(e) ==
    CASE e = "No config path available" -> "Save failed: No config path available"
      [] e = "Failed to create config dir" -> "Save failed: Failed to create config dir"
      [] e = "Failed to serialize config" -> "Save failed: Failed to serialize config"
      [] e = "Failed writing tmp config" -> "Save failed: Failed writing tmp config"
      [] e = "Failed renaming config" -> "Save failed: Failed renaming config"

\* write_config has returned: the "Save config" arm sets the status message.
SaveReturn ==
    /\ wpc = "return"
    /\ menu_message' = IF wres = "ok" THEN Some("Config saved")
                       ELSE Some(SaveFailedMessage(wres))
    /\ wpc' = "idle"
    /\ wres' = "none"
    /\ UNCHANGED << tmp_file, disk, loopVars, saveFrame >>

\* The process is stopped while main is inside write_config.
Crash ==
    /\ wpc \notin { "idle", "crashed" }
    /\ wpc' = "crashed"
    /\ running' = FALSE
    /\ UNCHANGED << wres, tmp_file, disk, menu_message, panicked, saveFrame >>

\* Moving in the menu, leaving it and the end of the frame, while main is not
\* inside write_config.
SaveMenuMove ==
    /\ wpc = "idle"
    /\ (MenuUp \/ MenuDown \/ MenuEscape \/ MenuApplyNext)

\* The menu arms that change the configuration in memory or leave the menu.
SaveMenuOther ==
    /\ MenuInput /\ wpc = "idle"
    /\ SelLabel \in { "Toggle show_empty_systems", "Reload config", "Close" }
    /\ MenuConfirmReturn

SaveInit ==
    /\ Started(Configs \cup { Garbage, NoPath })
    /\ roms_dir = RomsDir(None, config)
    /\ Cardinality(tree) = 1
    /\ probe = NoProbe

SaveNext ==
    \/ OpenMenuKeyC
    \/ SaveMenuMove
    \/ SaveMenuOther
    \/ SaveCall
    \/ SavePath
    \/ SaveMkdir
    \/ SaveSerialize
    \/ SaveWriteOpen
    \/ SaveWriteRest
    \/ SaveRename
    \/ SaveReturn
    \/ Crash

SaveSpec == SaveInit /\ [][SaveNext]_vars

\* ------------------------------------------------------------ ComboDetector
\* The buttons of a controller that occur in the model: the three of the chord
\* and one that is not part of it.
PadButtons == ChordButtons \cup { "A" }

\* The chord window and the cooldown, in ms.
ChordWindowMs == 400
CooldownMs == 1000

\* The times at which controller events arrive, in ms.
EventTimes == << 0, 200, 350, 500, 750, 1100, 1350, 1400 >>

SetMax(S) == CHOOSE x \in S : \A y \in S : y <= x
SetMin(S) == CHOOSE x \in S : \A y \in S : x <= y

\* The cooldown since the last fire has elapsed at time t.
CooldownElapsed(fired, t) ==
    fired = << >> \/ t - fired[Len(fired)] >= CooldownMs

\* Every chord button is tracked and the press times span at most the window.
ChordComplete(tracked) ==
    /\ \A b \in ChordButtons : IsSome(tracked[b])
    /\ LET stamps == { Unwrap(tracked[b]) : b \in ChordButtons }
       IN  SetMax(stamps) - SetMin(stamps) <= ChordWindowMs

\* What the detector does not touch.
padFrame ==
    << config, roms_dir, tree, probe, saveVars, pumpVars, groups, systems_vec, browseVars,
       msgVars, loopVars, menuVars, threadVars >>

\* Time passes until the next event.
PadTick ==
    /\ \E i \in DOMAIN EventTimes :
          /\ EventTimes[i] = now
          /\ i + 1 \in DOMAIN EventTimes
          /\ now' = EventTimes[i + 1]
    /\ UNCHANGED << held, press_at, fired_at, padFrame >>

\* Mutant of PadPress: the press times must span less than the window.
PadPress_StrictWindow(b) ==
    /\ b \notin held
    /\ held' = held \cup { b }
    /\ LET tracked == IF b \in ChordButtons THEN [press_at EXCEPT ![b] = Some(now)]
                      ELSE press_at
           stamps == { Unwrap(tracked[c]) : c \in ChordButtons }
       IN  IF /\ CooldownElapsed(fired_at, now)
              /\ \A c \in ChordButtons : IsSome(tracked[c])
              /\ SetMax(stamps) - SetMin(stamps) < ChordWindowMs
           THEN /\ press_at' = [c \in ChordButtons |-> None]
                /\ fired_at' = Append(fired_at, now)
           ELSE /\ press_at' = tracked
                /\ UNCHANGED fired_at
    /\ UNCHANGED << now, padFrame >>

\* Mutant of PadPress: the chord fires whatever the time since the last fire.
PadPress_NoCooldown(b) ==
    /\ b \notin held
    /\ held' = held \cup { b }
    /\ LET tracked == IF b \in ChordButtons THEN [press_at EXCEPT ![b] = Some(now)]
                      ELSE press_at
       IN  IF ChordComplete(tracked)
           THEN /\ press_at' = [c \in ChordButtons |-> None]
                /\ fired_at' = Append(fired_at, now)
           ELSE /\ press_at' = tracked
                /\ UNCHANGED fired_at
    /\ UNCHANGED << now, padFrame >>

\* A button goes down: a chord button is tracked with the time of the press;
\* then the chord is looked for, and a fire clears the tracked presses, resets
\* the cooldown clock and triggers the kill.
PadPress(b) ==
    /\ b \notin held
    /\ held' = held \cup { b }
    /\ LET tracked == IF b \in ChordButtons THEN [press_at EXCEPT ![b] = Some(now)]
                      ELSE press_at
       IN  IF CooldownElapsed(fired_at, now) /\ ChordComplete(tracked)
           THEN /\ press_at' = [c \in ChordButtons |-> None]
                /\ fired_at' = Append(fired_at, now)
           ELSE /\ press_at' = tracked
                /\ UNCHANGED fired_at
    /\ UNCHANGED << now, padFrame >>

\* A button goes up: it is no longer tracked, whatever the state of the chord.
PadRelease(b) ==
    /\ b \in held
    /\ held' = held \ { b }
    /\ press_at' = IF b \in ChordButtons THEN [press_at EXCEPT ![b] = None] ELSE press_at
    /\ UNCHANGED << now, fired_at, padFrame >>

ComboInit ==
    /\ Init
    /\ roms_dir = RomsDir(None, config)
    /\ Cardinality(tree) = 1

ComboNext ==
    \/ PadTick
    \/ \E b \in PadButtons : PadPress(b)
    \/ \E b \in PadButtons : PadRelease(b)

ComboSpec == ComboInit /\ [][ComboNext]_vars

\* ------------------------------------------------- the loop and its errors
\* The events given to the remap capture: a controller button, and an axis
\* motion, which the capture does not recognise.
ErrRemapEvents == { evt \in RemapEvents : evt.kind \in { "ControllerButtonDown", "JoyAxisMotion" } }

\* The main loop driven by the keyboard, the launch threads and the hotkey
\* thread, started on a config.toml that parses or on one that does not.
ErrInit ==
    /\ Started({ ToToml(Cfg(Some([k \in {"nes"} |-> TmplNes]), Some(FALSE), None)), Garbage })
    /\ roms_dir = RomsDir(None, config)
    /\ Cardinality(tree) = 1
    /\ probe = NoProbe

ErrNext ==
    \/ NavRight
    \/ ConfirmReturn
    \/ MainRecv
    \/ MainHotkeyKill
    \/ OpenMenuKeyC
    \/ MenuDown
    \/ MenuConfirmReturn
    \/ MenuApplyNext
    \/ \E evt \in ErrRemapEvents : RemapCapture(evt)
    \/ HotkeyPress
    \/ \E t \in Threads : SupSpawnOk(t)
    \/ \E t \in Threads : SupSpawnFail(t)
    \/ \E t \in Threads : SupStore(t)
    \/ \E t \in Threads : SupPollExited(t)
    \/ \E t \in Threads : SupPollRunning(t)
    \/ \E t \in Threads : SupPollError(t)
    \/ \E t \in Threads : SupWake(t)
    \/ \E t \in Threads : SupSend(t)
    \/ \E t \in Threads : ChildExit(t)
    \/ OrphanExit

ErrSpec == ErrInit /\ [][ErrNext]_vars

IsOpen == menu_state.kind = "Open"
IsRemap == menu_state.kind = "Remap"
Items == { menu_state.items[i] : i \in DOMAIN menu_state.items }

\* C11: while the menu is Open its selected index is within the item list, so
\* that items[selected] exists when an item is activated; the index moves by at
\* most one per input, never from the first item to the last or back.
C11_MenuIndexInRange ==
    /\ [](IsOpen => menu_state.selected + 1 \in DOMAIN menu_state.items)
    /\ [][(IsOpen /\ IsOpen') =>
             /\ menu_state'.selected - menu_state.selected \in { -1, 0, 1 }
             /\ (MenuUp /\ menu_state.selected = 0) => menu_state'.selected = 0
             /\ (MenuDown /\ menu_state.selected + 1 = Len(menu_state.items)) =>
                    menu_state'.selected = menu_state.selected]_vars

\* The last item is selected.
C11_Witness == IsOpen /\ menu_state.selected + 1 = Len(menu_state.items) /\ Len(menu_state.items) = 5

\* C12: while the menu is Open or Remap no launch thread is started, and the
\* current system, the selection and the scroll position change only by the
\* reload of the menu.
C12_MenuCapturesInput ==
    [][(IsOpen \/ IsRemap) =>
          /\ \A t \in Threads : spc[t] = "none" => spc'[t] = "none"
          /\ launching' => launching
          /\ << current_system_idx, selected, scroll_offset >>' #
                << current_system_idx, selected, scroll_offset >> =>
                (IsOpen /\ SelLabel = "Reload config" /\ menu_message' = Some("Config reloaded"))]_vars

\* A remap capture is awaited while nothing is launching and the list has a
\* second item to move to.
C12_Witness == IsRemap /\ ~ launching /\ Len(current_roms) > 1 /\ selected = 0

\* The first n actions of the fixed list.
ActionsUpTo(n) == { RemapActions[i] : i \in 1..n }

\* C13: a remap starts at cursor 0 with an empty partial map; each accepted event
\* stores one key for the action under the cursor and advances the cursor by
\* one; the N-th accepted event closes the remap and commits to config a
\* controller map with N entries, one per action; an event of any other kind
\* leaves the cursor and the partial map as they are and stops nothing.
C13_RemapCompletion ==
    /\ [](IsRemap =>
            /\ menu_state.items = RemapActions
            /\ menu_state.idx < Len(RemapActions)
            /\ DOMAIN menu_state.temp_map = ActionsUpTo(menu_state.idx)
            /\ \A evt \in RemapEvents :
                  LET after == RemapAfter(menu_state, evt)
                  IN  IF IsCapture(evt)
                      THEN /\ after.idx = menu_state.idx + 1
                           /\ DOMAIN after.temp_map = ActionsUpTo(menu_state.idx + 1)
                      ELSE after = menu_state)
    /\ [][/\ (~ IsRemap /\ IsRemap') => (menu_state'.idx = 0 /\ menu_state'.temp_map = EmptyMap)
          /\ (IsRemap /\ IsRemap' /\ menu_state' # menu_state) =>
                menu_state'.idx = menu_state.idx + 1
          /\ (IsRemap /\ ~ IsRemap') =>
                /\ menu_state' = MenuClosed
                /\ menu_state.idx + 1 = Len(RemapActions)
                /\ IsSome(config'.controller_map)
                /\ DOMAIN Unwrap(config'.controller_map) = ActionsUpTo(Len(RemapActions))
                /\ Cardinality(DOMAIN Unwrap(config'.controller_map)) = Len(RemapActions)
          /\ IsRemap => (running' /\ ~ panicked')]_vars

\* A remap has been completed: the committed map has a key for each of the seven
\* actions, one of them captured from a joystick button, and the menu is closed.
C13_Witness ==
    /\ menu_state = MenuClosed
    /\ IsSome(config.controller_map)
    /\ Cardinality(DOMAIN Unwrap(config.controller_map)) = 7
    /\ JoyCaptures(Unwrap(config.controller_map)) = 1

\* A confirm input of the menu on the item with this label.
MenuConfirmOn(label) == IsOpen /\ SelLabel = label /\ (MenuConfirmReturn \/ MenuConfirmPadA)

\* C14: activating the toggle item flips show_empty_systems in config and leaves
\* the rest of config, the menu (Open, same index), the config file, the library
\* and the browse state as they were; only the confirmation message is set.
\* Toggling twice gives the flag its first value again.
C14_ToggleFlipsFlagOnly ==
    /\ [](UnwrapOr(ToggleShowEmpty(ToggleShowEmpty(config)).show_empty_systems, FALSE)
            = UnwrapOr(config.show_empty_systems, FALSE))
    /\ [][MenuConfirmOn("Toggle show_empty_systems") =>
             /\ UnwrapOr(config'.show_empty_systems, FALSE)
                   = ~ UnwrapOr(config.show_empty_systems, FALSE)
             /\ config' = [config EXCEPT !.show_empty_systems = config'.show_empty_systems]
             /\ menu_state' = menu_state /\ IsOpen'
             /\ UNCHANGED << disk, menu_next_state, should_quit, groups, systems_vec,
                             browseVars, menuFrame >>]_vars

\* The flag was toggled in the menu: config and the config file disagree on it,
\* and the menu is still Open on the toggle item.
C14_Witness ==
    /\ IsOpen /\ SelLabel = "Toggle show_empty_systems"
    /\ config.show_empty_systems # LoadConfig(disk).show_empty_systems
    /\ menu_message \in { Some("show_empty_systems set to true"),
                          Some("show_empty_systems set to false") }

\* The systems SystemOrder must hold for a configuration and a library index.
Eligible(cfg, g) ==
    IF IsSome(cfg.systems)
    THEN { ToLower(k) : k \in { k \in DOMAIN Unwrap(cfg.systems) :
              \/ (ToLower(k) \in DOMAIN g /\ g[ToLower(k)] # << >>)
              \/ UnwrapOr(cfg.show_empty_systems, FALSE) } }
    ELSE {}

\* C15: systems_vec holds exactly the configured systems that have an indexed
\* file or, when show_empty_systems is set, all configured systems, for the
\* current config and groups, after a reload and after a toggle alike.
C15_SystemOrderCurrent ==
    /\ { systems_vec[i] : i \in DOMAIN systems_vec } = Eligible(config, groups)
    /\ Cardinality({ systems_vec[i] : i \in DOMAIN systems_vec }) = Len(systems_vec)

\* What a reload must have done: load, scan and the system order are run again,
\* the selected system is kept by name when it is still listed and is the first
\* one otherwise, the selection and the scroll position are 0, the menu is Open.
Reloaded ==
    LET prev == IF current_system_idx + 1 \in DOMAIN systems_vec
                THEN Some(systems_vec[current_system_idx + 1]) ELSE None
        listed == IsSome(prev) /\ \E i \in DOMAIN systems_vec' : systems_vec'[i] = Unwrap(prev)
    IN  /\ config' = LoadConfig(disk)
        /\ \E order \in VisitOrders(tree) : groups' = ScanGrouped(order, roms_dir, config')
        /\ { systems_vec'[i] : i \in DOMAIN systems_vec' } = Eligible(config', groups')
        /\ IF listed THEN systems_vec'[current_system_idx' + 1] = Unwrap(prev)
           ELSE current_system_idx' = 0
        /\ current_roms' = CurrentRoms(systems_vec', current_system_idx', groups')
        /\ selected' = 0 /\ scroll_offset' = 0
        /\ menu_state' = menu_state /\ IsOpen'

\* C16: activating "Reload config", by Keycode::Return or by CButton::A, reloads.
C16_ReloadConfig == [][MenuConfirmOn("Reload config") => Reloaded]_vars

\* The part of C16 that is about Keycode::Return.
ReloadByReturn ==
    [][(IsOpen /\ SelLabel = "Reload config" /\ MenuConfirmReturn) => Reloaded]_vars

\* C17: the Open menu offers an item "Exit"; activating it closes the menu and
\* sets should_quit, and nothing else sets should_quit.
C17_ExitRequestsQuit ==
    /\ [](IsOpen => "Exit" \in Items)
    /\ [][(should_quit' /\ ~ should_quit) =>
             (IsOpen /\ SelLabel = "Exit" /\ (menu_next_state' = "closed" \/ menu_state' = MenuClosed))]_vars
    /\ [](IsOpen /\ SelLabel = "Exit" => ENABLED (MenuConfirmReturn /\ should_quit'))

\* C18: each of the three inputs that open the menu is accepted whenever the menu
\* is Closed, launching or not, and the menu it opens has the item list built
\* anew and index 0.
C18_OpenMenuFresh ==
    /\ [](BrowseInput =>
            (ENABLED OpenMenuKeyC /\ ENABLED OpenMenuPadStart /\ ENABLED OpenMenuJoy7))
    /\ [][(~ IsOpen /\ IsOpen') =>
             (menu_state.kind = "Closed" /\ menu_state' = MenuOpen(MenuItems, 0))]_vars
    /\ [][(OpenMenuKeyC \/ OpenMenuPadStart \/ OpenMenuJoy7) =>
             (menu_state' = MenuOpen(MenuItems, 0) /\ launching' = launching)]_vars

\* The menu has been opened during a launch.
C18_Witness == IsOpen /\ menu_state.selected = 0 /\ launching /\ menu_next_state = "none"

\* ------------------------------------------------------------ the library
\* A path list in Ord order of its paths.
IsSorted(v) == \A i, j \in DOMAIN v : i < j => ~ PathLess(v[j], v[i])

\* C19: every scan of the same tree under the same configured systems gives the
\* same index, whatever the order in which the files are met, and each list
\* of the index is sorted by path.
C19_ScanStable ==
    /\ [](\A k \in DOMAIN groups : IsSorted(groups[k]))
    /\ [][(config'.systems = config.systems /\ tree' = tree /\ roms_dir' = roms_dir) =>
             groups' = groups]_vars

\* A reload has scanned again a tree in which one system has several files.
C19_Witness ==
    /\ menu_message = Some("Config reloaded")
    /\ \E k \in DOMAIN groups : Len(groups[k]) >= 2

\* The file rel is in the index g under key k.
Indexed(g, k, rel) == k \in DOMAIN g /\ \E i \in DOMAIN g[k] : g[k][i].rel = rel

\* C20: a file is in the index, under the lower-cased name of its first segment
\* below the root and under no other key, iff its extension is not an archive
\* extension, config has a template under that key, and the template has no
\* visible_extensions or the extension equals one of them, case ignored.
C20_IndexMembership ==
    /\ \A k \in DOMAIN groups : \A i \in DOMAIN groups[k] :
          groups[k][i].rel \in tree /\ groups[k][i].root = roms_dir
          /\ k = ToLower(groups[k][i].rel[1])
    /\ \A rel \in tree :
          LET ext == ExtOf(rel[Len(rel)])
              id == ToLower(rel[1])
              archive == IsSome(ext) /\ ToLower(Unwrap(ext)) \in IgnoredExts
              defined == IsSome(config.systems) /\ id \in DOMAIN Unwrap(config.systems)
              visible == Unwrap(config.systems)[id].visible_extensions
              shown == IF IsSome(visible)
                       THEN IsSome(ext) /\ \E i \in DOMAIN Unwrap(visible) :
                                ToLower(Unwrap(visible)[i]) = ToLower(Unwrap(ext))
                       ELSE TRUE
          IN  Indexed(groups, id, rel) <=> (~ archive /\ defined /\ shown)

\* The index holds a file of the folder SNES under snes and a file whose
\* extension is spelled in capitals, and has dropped an archive and a file without
\* extension of a system with visible_extensions.
C20_Witness ==
    /\ Indexed(groups, "snes", << "SNES", "mario.sfc" >>)
    /\ Indexed(groups, "nes", << "nes", "Zelda.NES" >>)
    /\ << "nes", "save.zip" >> \in tree /\ << "nes", "readme" >> \in tree
    /\ ~ Indexed(groups, "nes", << "nes", "readme" >>)
    /\ IsSome(Unwrap(config.systems)["nes"].visible_extensions)

\* ------------------------------------------------- extension resolution
\* The template of sys in cfg lists ext, case ignored.
Lists(cfg, sys, ext) ==
    /\ IsSome(cfg.systems)
    /\ sys \in DOMAIN Unwrap(cfg.systems)
    /\ IsSome(Unwrap(cfg.systems)[sys].extensions)
    /\ \E e \in { Unwrap(Unwrap(cfg.systems)[sys].extensions)[i] :
                     i \in DOMAIN Unwrap(Unwrap(cfg.systems)[sys].extensions) } :
          ToLower(e) = ToLower(ext)

\* C21: find_system_for_extension returns the first system of systems_order whose
\* template lists the extension, case ignored, and None when no system of
\* systems_order does; a system without a list or outside systems_order is
\* never returned.
C21_FirstListedWins ==
    (probe.fn = "find_system_for_extension" /\ probe.done) =>
        LET o == probe.systems_order
            hits == { i \in DOMAIN o : Lists(probe.cfg, o[i], probe.ext) }
        IN  /\ hits = {} => probe.out = None
            /\ hits # {} => probe.out = Some(o[CHOOSE i \in hits : \A j \in hits : i <= j])
            /\ IsSome(probe.out) =>
                  /\ \E i \in DOMAIN o : o[i] = Unwrap(probe.out)
                  /\ IsSome(Unwrap(probe.cfg.systems)[Unwrap(probe.out)].extensions)

\* famicom lists NES and comes before nes, after a system without a list: the
\* extension nes resolves to famicom.
C21_Witness ==
    /\ probe.fn = "find_system_for_extension" /\ probe.done
    /\ probe.ext = "nes" /\ probe.systems_order = << "any", "famicom", "nes" >>
    /\ probe.out = Some("famicom")

\* The configuration is the field-wise merge of the document onto the built-in
\* values: a key of the document gives the field, a missing key leaves the
\* built-in value.
MergedFrom(cfg, doc) ==
    \A f \in FieldSet :
        cfg[f] = IF f \in DOMAIN doc.table THEN Some(doc.table[f]) ELSE BuiltIn[f]

\* Return on "Reload config".
ReloadKey == IsOpen /\ SelLabel = "Reload config" /\ MenuConfirmReturn

\* C22: whatever subset of the six fields the parsed document holds, the
\* configuration loaded at start and by every reload has the document's value in
\* each field that is present and the built-in default in each that is absent.
C22_FieldWiseMerge ==
    /\ disk.kind = "toml" => MergedFrom(config, disk)
    /\ [][(ReloadKey /\ disk.kind = "toml") => MergedFrom(config', disk)]_vars

\* C22 witness: a reload has just read a document that holds two of the fields
\* and lacks the other four.
C22_Witness ==
    /\ menu_message = Some("Config reloaded")
    /\ disk.kind = "toml"
    /\ DOMAIN disk.table = { "systems", "font_path" }
    /\ config.font_path = Some("DejaVuSans.ttf")
    /\ config.default = Some(TmplMgba)
    /\ config.show_empty_systems = Some(FALSE)

\* Return on "Save config".
SaveKey == IsOpen /\ SelLabel = "Save config" /\ MenuConfirmReturn

Complete(doc) == doc.kind # "partial"

\* C24: from the call of write_config to its return, and when the process is
\* stopped at any point in between, config.toml holds a complete text: each step leaves
\* it as it was or replaces it by the whole serialized configuration.
C24_SaveAtomic ==
    /\ Complete(disk)
    /\ [][/\ Complete(disk')
          /\ wpc # "idle" => (disk' = disk \/ disk' = ToToml(config))]_vars

\* C24 witness: the process stopped while the temporary file held only the first
\* bytes of the new text; config.toml still holds the old text, which differs
\* from the configuration being saved.
C24_Witness ==
    /\ wpc = "crashed"
    /\ IsSome(tmp_file) /\ ~ Complete(Unwrap(tmp_file))
    /\ disk.kind = "toml"
    /\ disk # ToToml(config)

\* The step of write_config at which each error of the claim arises, and the
\* error write_config returns for it.
SaveErrorAt(pc) ==
    CASE pc = "path" -> "No config path available"
      [] pc = "mkdir" -> "Failed to create config dir"
      [] pc = "serialize" -> "Failed to serialize config"
      [] pc \in { "write", "writing" } -> "Failed writing tmp config"
      [] pc = "rename" -> "Failed renaming config"

\* C25: a failure at the path, directory, serialization, write or rename step
\* returns the error of that step, the five errors being different texts; the
\* status message names it; and on every failure config.toml and the
\* configuration in memory are what they were when the save was called.
C25_SaveErrors ==
    [][/\ (wpc \notin { "idle", "return", "crashed" } /\ wpc' = "return" /\ wres' # "ok")
            => wres' = SaveErrorAt(wpc)
       /\ (wpc = "return" /\ wpc' = "idle" /\ wres # "ok")
            => menu_message' = Some(SaveFailedMessage(wres))
       /\ (wpc # "idle" /\ wres' # "ok") => disk' = disk
       /\ wpc # "idle" => config' = config]_vars

\* C25 witness: the rename failed after the temporary file was written in full;
\* the status message reports it and config.toml is not what was to be saved.
C25_Witness ==
    /\ wpc = "idle"
    /\ menu_message = Some("Save failed: Failed renaming config")
    /\ tmp_file = Some(ToToml(config))
    /\ disk # ToToml(config)

\* C26: a "Reload config" that finds a file which does not parse leaves the
\* configuration in memory as it was before the reload.
C26_ParseFailureKeepsPrevious ==
    [][(ReloadKey /\ disk.kind = "garbage") => config' = config]_vars

\* Button b goes down in this step.
Pressing(b) == b \notin held /\ held' = held \cup { b }

\* The tracked press times once the press of b at the present time is recorded.
TrackedWith(b) ==
    IF b \in ChordButtons THEN [press_at EXCEPT ![b] = Some(now)] ELSE press_at

Completes(b, stamps) ==
    /\ b \in ChordButtons /\ Pressing(b)
    /\ \A c \in ChordButtons : IsSome(TrackedWith(b)[c])
    /\ { Unwrap(TrackedWith(b)[c]) : c \in ChordButtons } = stamps

ErrorStep ==
    \/ (SaveKey /\ menu_message' # Some("Config saved"))
    \/ /\ menu_state.kind = "Remap"
       /\ \E evt \in ErrRemapEvents : RemapCapture(evt)
       /\ menu_message' = Some("Save failed")
    \/ (ReloadKey /\ disk.kind = "garbage")
    \/ (ConfirmReturn /\ IsSome(error_overlay'))
    \/ \E t \in Threads : SupSpawnFail(t)
    \/ \E t \in Threads : SupPollError(t)
    \/ (MainHotkeyKill /\ menu_message' # Some("Killed emulator"))
    \/ /\ menu_state.kind = "Remap"
       /\ \E evt \in ErrRemapEvents : ~ IsCapture(evt) /\ RemapCapture(evt)

\* C29: a step in which a configuration error, a resolution error, a process
\* error or an unrecognised remap event arises leaves the main loop running: no
\* panic, no quit request, and the loop goes on to its next frame.
C29_ErrorsKeepLoopRunning ==
    [][ErrorStep => (running' /\ ~ panicked' /\ ~ should_quit')]_vars

\* C29 witness: a save has failed, a spawn has failed in a launch thread, and
\* the main loop is running.
C29_Witness ==
    /\ menu_message = Some("Save failed")
    /\ \E t \in Threads : sres[t] = "spawn_failed"
    /\ running /\ ~ panicked /\ ~ should_quit

\* C31: a reload that finds the configuration unchanged lists the systems in
\* the same order as before, the order of the configuration's system mapping.
C31_SystemOrderStable ==
    [][(ReloadKey /\ LoadConfig(disk) = config) => systems_vec' = systems_vec]_vars

\* A process started by launch t is alive and no kill has taken it.
AliveUnkilled(t) ==
    /\ proc[t] = "alive"
    /\ \A i \in DOMAIN cleared[t] : cleared[t][i] \notin KillClears

\* C32: kill_current_emulator does not answer "No emulator running" while a
\* process started by a launch is alive and no kill has been issued for it.
C32_KillFindsLiveChild ==
    [][KillEmpty => ~ \E t \in Threads : AliveUnkilled(t)]_vars

\* The external processes started by the supervisor that have not exited: those
\* of the running launch threads and the one left behind by an ended thread.
AliveProcesses ==
    Cardinality({ t \in Threads : proc[t] = "alive" }) + (IF orphan THEN 1 ELSE 0)

\* C33: at most one external process started by the supervisor is alive at any
\* time, whatever the interleaving of launches, kills and exits.
C33_AtMostOneAlive == AliveProcesses <= 1

\* C34: a hotkey kill request handled by the main loop leaves the slot as
\* kill_current_emulator does: with a tracked child the slot is empty when the
\* step finishes; with an empty slot "No emulator running" is set and the slot,
\* the processes and the launch state are unchanged.
C34_HotkeyKillAsSupervisorKill ==
    [][MainHotkeyKill =>
          IF slot # 0
          THEN slot' = 0
          ELSE /\ menu_message' = Some("No emulator running")
               /\ UNCHANGED << slot, proc, orphan, launching, supVars >>]_vars

\* ----------------------------------------------- main loop: the event queue
\* Events that can wait in the queue together.
MaxPending == 2

\* The window-close event, a controller button and a joystick button that
\* neither the browsing handlers nor the Open handlers are bound to.
QuitEvent == [kind |-> "Quit", code |-> ""]
PumpEvents ==
    { QuitEvent,
      [kind |-> "ControllerButtonDown", code |-> "X"],
      [kind |-> "JoyButtonDown", code |-> "5"] }

\* What taking an event out of the queue leaves alone.
pumpFrame ==
    << config, roms_dir, tree, probe, saveVars, padVars, groups, systems_vec, browseVars,
       error_overlay, panicked, menu_next_state, should_quit, threadVars >>

\* Joystick-button events waiting in the queue.
JoyPending == Cardinality({ i \in DOMAIN event_pump : event_pump[i].kind = "JoyButtonDown" })

\* SDL puts an event into the queue of the application.
PumpDeliver(evt) ==
    /\ running
    /\ Len(event_pump) < MaxPending
    /\ evt.kind = "JoyButtonDown" =>
          JoyCaptures(menu_state.temp_map) + JoyPending < MaxJoyCaptures
    /\ event_pump' = Append(event_pump, evt)
    /\ UNCHANGED << mpc, running, menu_state, menu_message, disk, pumpFrame >>

\* poll_iter() yields Event::Quit while the menu is Closed: break 'running.
PollQuit ==
    /\ running /\ mpc = "poll" /\ menu_state.kind = "Closed"
    /\ event_pump # << >> /\ Head(event_pump).kind = "Quit"
    /\ event_pump' = Tail(event_pump)
    /\ running' = FALSE
    /\ UNCHANGED << mpc, menu_state, menu_message, disk, pumpFrame >>

\* poll_iter() yields an unbound button while the menu is Closed: `_ => {}`.
PollUnbound ==
    /\ running /\ mpc = "poll" /\ menu_state.kind = "Closed"
    /\ event_pump # << >> /\ Head(event_pump).kind # "Quit"
    /\ event_pump' = Tail(event_pump)
    /\ UNCHANGED << mpc, running, menu_state, menu_message, disk, pumpFrame >>

\* poll_iter() yields an event while the menu is Open or Remap: it is pushed to
\* menu_events and the match on its kind is skipped. The Open arm drains
\* menu_events and has no arm for these events; the Remap arm never reads
\* menu_events, which is dropped at the end of the iteration.
PollBuffered ==
    /\ running /\ mpc = "poll" /\ menu_state.kind \in { "Open", "Remap" }
    /\ event_pump # << >>
    /\ event_pump' = Tail(event_pump)
    /\ UNCHANGED << mpc, running, menu_state, menu_message, disk, pumpFrame >>

\* poll_iter() is exhausted in the Remap state: main draws the prompt and
\* enters wait_event_timeout(3000).
RemapPollDone ==
    /\ running /\ mpc = "poll" /\ menu_state.kind = "Remap"
    /\ event_pump = << >>
    /\ mpc' = "wait"
    /\ UNCHANGED << event_pump, running, menu_state, menu_message, disk, pumpFrame >>

\* wait_event_timeout(3000) returns the next event: it is matched, and the map
\* is committed and saved when every action has a key.
RemapWaitEvent ==
    /\ running /\ mpc = "wait" /\ menu_state.kind = "Remap"
    /\ event_pump # << >>
    /\ event_pump' = Tail(event_pump)
    /\ mpc' = "poll"
    /\ LET after == RemapAfter(menu_state, Head(event_pump))
       IN  IF after.idx >= Len(after.items)
           THEN /\ config' = [config EXCEPT !.controller_map = Some(after.temp_map)]
                /\ \E ok \in BOOLEAN :
                      /\ WriteConfig(config', ok)
                      /\ menu_message' = IF ok THEN Some("Controller mapping saved")
                                         ELSE Some("Save failed")
                /\ menu_state' = MenuClosed
           ELSE /\ menu_state' = after
                /\ UNCHANGED << config, menu_message, disk >>
    /\ UNCHANGED << roms_dir, tree, probe, saveVars, padVars, groups, systems_vec,
                    browseVars, error_overlay, loopVars, menu_next_state, should_quit,
                    threadVars >>

\* wait_event_timeout(3000) returns None: no capture in this iteration.
RemapWaitTimeout ==
    /\ running /\ mpc = "wait" /\ menu_state.kind = "Remap"
    /\ event_pump = << >>
    /\ mpc' = "poll"
    /\ UNCHANGED << event_pump, running, menu_state, menu_message, disk, pumpFrame >>

\* The keyboard reaches the menu and its items while no other event waits.
PumpOpenMenu == event_pump = << >> /\ OpenMenuKeyC
PumpMenuDown == event_pump = << >> /\ MenuDown
PumpMenuReturn == event_pump = << >> /\ MenuConfirmReturn
PumpMenuEscape == event_pump = << >> /\ MenuEscape

\* One configuration, the default library root and the smallest tree; events
\* are taken from the queue one by one.
PumpInit ==
    /\ ErrInit
    /\ disk.kind = "toml"

PumpNext ==
    \/ \E evt \in PumpEvents : PumpDeliver(evt)
    \/ PollQuit
    \/ PollUnbound
    \/ PollBuffered
    \/ RemapPollDone
    \/ RemapWaitEvent
    \/ RemapWaitTimeout
    \/ PumpOpenMenu
    \/ PumpMenuDown
    \/ PumpMenuReturn
    \/ PumpMenuEscape
    \/ MenuApplyNext

PumpSpec == PumpInit /\ [][PumpNext]_vars

\* The step takes the first waiting event out of the queue.
Takes(evt) == event_pump # << >> /\ Head(event_pump) = evt /\ event_pump' = Tail(event_pump)

\* The capture of evt for the action at the cursor: the cursor moves on by one
\* with the key recorded, or, at the last action, the completed map is committed.
Recorded(evt) ==
    LET act == menu_state.items[menu_state.idx + 1]
    IN  IF menu_state.idx + 1 < Len(menu_state.items)
        THEN /\ menu_state'.kind = "Remap"
             /\ menu_state'.idx = menu_state.idx + 1
             /\ act \in DOMAIN menu_state'.temp_map
             /\ menu_state'.temp_map[act] = CaptureKey(evt)
        ELSE /\ menu_state'.kind = "Closed"
             /\ IsSome(config'.controller_map)
             /\ act \in DOMAIN Unwrap(config'.controller_map)
             /\ Unwrap(config'.controller_map)[act] = CaptureKey(evt)

\* C35: every controller-button or joystick-button press delivered while the
\* menu state is Remap is captured when it is taken from the queue: the cursor
\* advances by one and the event's tagged key is recorded for the action at
\* the cursor.
C35_NoCaptureLost ==
    [][\A evt \in PumpEvents :
          (menu_state.kind = "Remap" /\ IsCapture(evt) /\ Takes(evt)) => Recorded(evt)]_vars

\* C36: a window-close event taken from the queue ends the main loop, whatever
\* the menu state is.
C36_QuitAlwaysTerminates ==
    [][Takes(QuitEvent) => ~ running']_vars

\* The current system index is below the length of systems_vec, or 0 when
\* systems_vec is empty.
SystemIndexInBounds ==
    IF Len(systems_vec) = 0 THEN current_system_idx = 0
    ELSE current_system_idx < Len(systems_vec)

\* C37: system navigation never faults and keeps the current system index in
\* bounds, also when systems_vec is empty.
C37_SystemNavSafe == ~ panicked /\ SystemIndexInBounds

\* Browsing and the keyboard menu over a library of two files of one system,
\* while another program may spoil config.toml.
BrowseInit ==
    /\ Started({ ToToml(Cfg(Some([k \in {"nes"} |-> TmplNes]), Some(FALSE), None)) })
    /\ roms_dir = RomsDir(None, config)
    /\ Cardinality(tree) = 2
    /\ probe = NoProbe

BrowseNext ==
    \/ NavUp
    \/ NavDown
    \/ NavLeft
    \/ NavRight
    \/ OpenMenuKeyC
    \/ MenuUp
    \/ MenuDown
    \/ MenuConfirmReturn
    \/ MenuEscape
    \/ MenuApplyNext
    \/ EditFile

BrowseSpec == BrowseInit /\ [][BrowseNext]_vars

\* C38: the browse selection refers to an item of the current list: selected is
\* below the length of current_roms, or 0 when the list is empty.
C38_SelectionInList ==
    IF Len(current_roms) = 0 THEN selected = 0 ELSE selected < Len(current_roms)

\* C38 witness: a reload has emptied the list that the selection had been moved
\* down in.
C38_Witness ==
    /\ menu_message = Some("Config reloaded")
    /\ disk = Garbage
    /\ Len(current_roms) = 0 /\ selected = 0

\* C39: every indexed path lies inside a subdirectory of the root whose
\* case-folded name is the system it is listed under; a file directly in the
\* root is not indexed.
C39_IndexedBelowSystemDir ==
    \A k \in DOMAIN groups : \A i \in DOMAIN groups[k] :
        /\ Len(groups[k][i].rel) >= 2
        /\ ToLower(groups[k][i].rel[1]) = k

====
